---------------------------- MODULE Spec2Model ----------------------------
(***************************************************************************)
(* A model of the FinanceQA agent: the FinancialRAG knowledge store        *)
(* (src/rag.py), retry_with_exponential_backoff (src/utils.py) and the     *)
(* benchmark runner FinanceQAAgent.evaluate_on_dataset (src/agent.py).     *)
(*                                                                         *)
(* Text is a sequence of one-character strings.  Similarities are cosine   *)
(* similarities in hundredths (0.3 is 30).                                 *)
(***************************************************************************)
EXTENDS Integers, Sequences, FiniteSets, TLC

(***************************************************************************)
(* Python str and re, as far as src/rag.py uses them                       *)
(***************************************************************************)

UpperLetters ==
  <<"A","B","C","D","E","F","G","H","I","J","K","L","M",
    "N","O","P","Q","R","S","T","U","V","W","X","Y","Z">>

LowerLetters ==
  <<"a","b","c","d","e","f","g","h","i","j","k","l","m",
    "n","o","p","q","r","s","t","u","v","w","x","y","z">>

Digits == <<"0","1","2","3","4","5","6","7","8","9">>

Range(s) == {s[i] : i \in DOMAIN s}

Min(a, b) == IF a <= b THEN a ELSE b

\* str.lower() on the upper-case letters
LowerOf == [c \in Range(UpperLetters) |->
              LowerLetters[CHOOSE i \in DOMAIN UpperLetters : UpperLetters[i] = c]]

\* str.lower() on one character
Lower(c) == IF c \in DOMAIN LowerOf THEN LowerOf[c] ELSE c

\* what str.strip() removes and what \s matches
IsSpace(c) == c \in {" ", "\t", "\n", "\r", "\f"}

IsDigit(c) == c \in Range(Digits)

IsAlpha(c) == c \in Range(UpperLetters) \/ c \in Range(LowerLetters)

\* str(n) for n >= 0
RECURSIVE Str(_)
Str(n) == IF n < 10 THEN <<Digits[n + 1]>>
          ELSE Str(n \div 10) \o <<Digits[(n % 10) + 1]>>

\* text[p:].startswith(s), p counted from 1
StartsWith(text, p, s) ==
  /\ p >= 1
  /\ p + Len(s) - 1 <= Len(text)
  /\ \A i \in 1..Len(s) : text[p + i - 1] = s[i]

\* the same under re.IGNORECASE
StartsWithCI(text, p, s) ==
  /\ p >= 1
  /\ p + Len(s) - 1 <= Len(text)
  /\ \A i \in 1..Len(s) : Lower(text[p + i - 1]) = Lower(s[i])

\* text.find(s, p - 1) + 1: the first place >= p where s starts, 0 if none
Find(text, s, p) ==
  LET last == Len(text) - Len(s) + 1 IN
  IF \E i \in p..last : StartsWith(text, i, s)
    THEN CHOOSE i \in p..last :
           StartsWith(text, i, s) /\ \A j \in p..(i - 1) : ~StartsWith(text, j, s)
    ELSE 0

\* s in text
Contains(text, s) == Find(text, s, 1) # 0

\* text[:n]
Prefix(text, n) == SubSeq(text, 1, Min(n, Len(text)))

\* text.strip()
Strip(text) ==
  IF \A i \in DOMAIN text : IsSpace(text[i]) THEN <<>>
  ELSE LET first == CHOOSE i \in DOMAIN text :
                      ~IsSpace(text[i]) /\ \A j \in 1..(i - 1) : IsSpace(text[j])
           last  == CHOOSE i \in DOMAIN text :
                      ~IsSpace(text[i]) /\ \A j \in (i + 1)..Len(text) : IsSpace(text[j])
       IN SubSeq(text, first, last)

\* text[p-1:].split(sep): the pieces between successive occurrences of sep
RECURSIVE SplitFrom(_, _, _)
SplitFrom(text, sep, p) ==
  LET at == Find(text, sep, p) IN
  IF at = 0 THEN <<SubSeq(text, p, Len(text))>>
  ELSE <<SubSeq(text, p, at - 1)>> \o SplitFrom(text, sep, at + Len(sep))

Split(text, sep) == SplitFrom(text, sep, 1)

\* sep.join(parts)
RECURSIVE Join(_, _)
Join(parts, sep) ==
  IF parts = <<>> THEN <<>>
  ELSE IF Len(parts) = 1 THEN parts[1]
  ELSE parts[1] \o sep \o Join(Tail(parts), sep)

NL == "\n"

BlankLine == <<NL, NL>>

(***************************************************************************)
(* Regular expressions.  A pattern is a sequence of items, matched left to *)
(* right with backtracking in the priority order of Python's re:           *)
(*   Lit(s)         the literal s (re.escape(s)), ignoring case            *)
(*   Rep(c, m, g)   m or more characters of class c, greedy (g) or lazy    *)
(*   One(c)         one character of class c                               *)
(*   Ahead(a, e)    (?=a1|a2|...) with $ as one more alternative when e    *)
(* All patterns of src/rag.py are compiled with IGNORECASE.                *)
(***************************************************************************)

Lit(s) == [kind |-> "lit", s |-> s]

Rep(cls, min, greedy) == [kind |-> "rep", cls |-> cls, min |-> min, greedy |-> greedy]

One(cls) == [kind |-> "one", cls |-> cls]

Ahead(alts, eos) == [kind |-> "ahead", alts |-> alts, eos |-> eos]

InClass(c, cls) ==
  CASE cls = "space"       -> IsSpace(c)                    \* \s
    [] cls = "digit"       -> IsDigit(c)                    \* \d
    [] cls = "alpha"       -> IsAlpha(c)                    \* [A-Z] with (?i)
    [] cls = "alpha_space" -> IsAlpha(c) \/ IsSpace(c)      \* [A-Z\s] with (?i)
    [] cls = "colon_space" -> c = ":" \/ IsSpace(c)         \* [:\s]
    [] cls = "not_newline" -> c \notin {"\n", "\r"}         \* [^\n\r]
    [] cls = "any"         -> TRUE                          \* . with DOTALL

\* how many characters of class cls follow, starting at p
RunLen(text, p, cls) ==
  LET n == Len(text) IN
  IF p > n THEN 0
  ELSE IF cls = "any" THEN n + 1 - p
  ELSE LET stop == CHOOSE e \in p..(n + 1) :
                     /\ (e = n + 1 \/ ~InClass(text[e], cls))
                     /\ \A j \in p..(e - 1) : InClass(text[j], cls)
       IN stop - p

\* $ without MULTILINE: at the end, or just before a final newline
AtEnd(text, p) ==
  \/ p = Len(text) + 1
  \/ p = Len(text) /\ text[p] = NL

AheadHolds(text, p, it) ==
  \/ \E i \in DOMAIN it.alts : StartsWithCI(text, p, it.alts[i])
  \/ it.eos /\ AtEnd(text, p)

NoMatch == [ok |-> FALSE, ends |-> <<>>]

\* Match items k.. of a pattern at p: ends[j] is the place after the j-th of them.
RECURSIVE MatchFrom(_, _, _, _)
MatchFrom(items, k, text, p) ==
  IF k > Len(items) THEN [ok |-> TRUE, ends |-> <<>>]
  ELSE
    LET it == items[k] IN
    CASE it.kind = "lit" ->
           IF StartsWithCI(text, p, it.s)
             THEN LET q == p + Len(it.s)
                      r == MatchFrom(items, k + 1, text, q)
                  IN IF r.ok THEN [ok |-> TRUE, ends |-> <<q>> \o r.ends] ELSE NoMatch
             ELSE NoMatch
      [] it.kind = "one" ->
           IF p <= Len(text) /\ InClass(text[p], it.cls)
             THEN LET r == MatchFrom(items, k + 1, text, p + 1)
                  IN IF r.ok THEN [ok |-> TRUE, ends |-> <<p + 1>> \o r.ends] ELSE NoMatch
             ELSE NoMatch
      [] it.kind = "ahead" ->
           IF AheadHolds(text, p, it)
             THEN LET r == MatchFrom(items, k + 1, text, p)
                  IN IF r.ok THEN [ok |-> TRUE, ends |-> <<p>> \o r.ends] ELSE NoMatch
             ELSE NoMatch
      [] it.kind = "rep" ->
           LET run == RunLen(text, p, it.cls)
               cnt == run - it.min + 1
               \* the i-th length tried: longest first when greedy, shortest first when lazy
               cand(i) == IF it.greedy THEN p + run - (i - 1) ELSE p + it.min + (i - 1)
               Ok(i) == MatchFrom(items, k + 1, text, cand(i)).ok
           IN IF cnt <= 0 THEN NoMatch
              ELSE LET i0 == CHOOSE i \in 1..(cnt + 1) :
                               /\ (i = cnt + 1 \/ Ok(i))
                               /\ \A j \in 1..(i - 1) : ~Ok(j)
                   IN IF i0 = cnt + 1 THEN NoMatch
                      ELSE [ok |-> TRUE,
                            ends |-> <<cand(i0)>>
                                     \o MatchFrom(items, k + 1, text, cand(i0)).ends]

MatchAt(items, text, p) == MatchFrom(items, 1, text, p)

\* the least of a set of places, 0 if there is none
First(places) ==
  IF places = {} THEN 0 ELSE CHOOSE s \in places : \A j \in places : s <= j

\* re.search from p: the first place >= p where the pattern matches, 0 if none
SearchFrom(items, text, p) ==
  First({s \in p..(Len(text) + 1) : MatchAt(items, text, s).ok})

\* where the search goes on after a match from s to e: an empty match moves one on
AfterMatch(s, e) == IF e = s THEN e + 1 ELSE e

\* re.findall(pattern, text) for a pattern whose one group runs from the start of
\* the match to the end of item grp (grp = Len(items): the whole match)
RECURSIVE FindAllFrom(_, _, _, _)

\* the group of the match m at s, then the matches after it
MatchThenRest(items, grp, text, s, m) ==
  <<SubSeq(text, s, m.ends[grp] - 1)>>
    \o FindAllFrom(items, grp, text, AfterMatch(s, m.ends[Len(items)]))

FindAllAt(items, grp, text, s) ==
  IF s = 0 THEN <<>> ELSE MatchThenRest(items, grp, text, s, MatchAt(items, text, s))

FindAllFrom(items, grp, text, p) == FindAllAt(items, grp, text, SearchFrom(items, text, p))

FindAll(items, grp, text) == FindAllFrom(items, grp, text, 1)


(***************************************************************************)
(* FinancialRAG: the chunkers (src/rag.py)                                 *)
(***************************************************************************)

MaxTocSections == 20        \* sections[:20]

MinTitleLen == 10           \* len(section) > 10

MaxTitleLen == 100          \* len(section) < 100

MinSectionLen == 100        \* len(content) > 100

SectionSplitLen == 2000     \* len(content) > 2000

TargetChunkLen == 1500      \* len(current_chunk) + len(para) > 1500

MinParagraphLen == 50       \* len(para) < 50

HeaderScanLen == 20         \* 'Page' in para[:20]

PageWord == <<"P","a","g","e">>

\* toc_patterns
TocPatterns ==
  << <<Lit(<<"t","a","b","l","e">>), Rep("space", 1, TRUE), Lit(<<"o","f">>), Rep("space", 1, TRUE),
       Lit(<<"c","o","n","t","e","n","t","s">>), Rep("any", 0, FALSE),
       Ahead(<<<<"c","h","a","p","t","e","r">>, <<"s","e","c","t","i","o","n">>, <<"p","a","g","e">>, BlankLine>>, FALSE)>>,
     <<Lit(<<"c","o","n","t","e","n","t","s">>), Rep("any", 0, FALSE),
       Ahead(<<<<"c","h","a","p","t","e","r">>, <<"s","e","c","t","i","o","n">>, <<"p","a","g","e">>, BlankLine>>, FALSE)>> >>

\* section_patterns, each with the item its group ends at
SectionPatterns ==
  << [items |-> <<Lit(<<"c","h","a","p","t","e","r">>), Rep("space", 1, TRUE), Rep("digit", 1, TRUE),
                  Rep("colon_space", 1, TRUE), Rep("not_newline", 1, TRUE)>>,
      grp |-> 5],
     [items |-> <<Rep("digit", 1, TRUE), Lit(<<".">>), Rep("digit", 0, TRUE),
                  Rep("space", 1, TRUE), One("alpha"), Rep("not_newline", 1, TRUE)>>,
      grp |-> 6],
     [items |-> <<One("alpha"), Rep("alpha_space", 1, TRUE), One("alpha"),
                  Rep("space", 1, TRUE), Rep("digit", 1, TRUE)>>,
      grp |-> 3] >>

StripAll(parts) == [i \in DOMAIN parts |-> Strip(parts[i])]

\* for sec_pattern in section_patterns: sections.extend(stripped findall)
RECURSIVE FoundSections(_, _)
FoundSections(toc_text, k) ==
  IF k > Len(SectionPatterns) THEN <<>>
  ELSE StripAll(FindAll(SectionPatterns[k].items, SectionPatterns[k].grp, toc_text))
         \o FoundSections(toc_text, k + 1)

\* for pattern in toc_patterns: the raw candidates of the first lead-in that yields any
RECURSIVE RawSections(_, _)

\* if sections: break
SectionsOr(sections, text, k) ==
  IF sections # <<>> THEN sections ELSE RawSections(text, k + 1)

\* toc_match.group(0) for the match m at s
TocText(text, s, m) == SubSeq(text, s, m.ends[Len(m.ends)] - 1)

\* if toc_match: ...
TocAt(text, k, s) ==
  IF s = 0 THEN RawSections(text, k + 1)
  ELSE SectionsOr(FoundSections(TocText(text, s, MatchAt(TocPatterns[k], text, s)), 1),
                  text, k)

RawSections(text, k) ==
  IF k > Len(TocPatterns) THEN <<>>
  ELSE TocAt(text, k, SearchFrom(TocPatterns[k], text, 1))

ReasonableLength(section) == Len(section) > MinTitleLen /\ Len(section) < MaxTitleLen

\* a cut that keeps every candidate
AllSections(sections) == sections

\* sections[:20]
FirstSections(sections) == SubSeq(sections, 1, Min(MaxTocSections, Len(sections)))

_extract_toc_sections(text) ==
  SelectSeq(FirstSections(RawSections(text, 1)), ReasonableLength)

SectionChunk(section_title, body) ==
  [text |-> section_title \o BlankLine \o body,
   topic |-> "textbook_section",
   source |-> "pdf_valuation",
   section |-> section_title]

\* the loop over paragraphs of one large section, from paragraph k on
RECURSIVE SplitSection(_, _, _, _)
SplitSection(section_title, paragraphs, k, current_chunk) ==
  IF k > Len(paragraphs)
    THEN IF current_chunk # <<>> THEN <<SectionChunk(section_title, current_chunk)>>
         ELSE <<>>
  ELSE LET para == paragraphs[k] IN
       IF Len(current_chunk) + Len(para) > TargetChunkLen
         THEN (IF current_chunk # <<>> THEN <<SectionChunk(section_title, current_chunk)>>
               ELSE <<>>)
              \o SplitSection(section_title, paragraphs, k + 1, para)
         ELSE SplitSection(section_title, paragraphs, k + 1,
                IF current_chunk # <<>> THEN current_chunk \o BlankLine \o para ELSE para)

\* re.escape(section_title.strip()) + r'(.*?)(?=' + the next title, stripped + r'|$)'
SectionPattern(sections, i) ==
  <<Lit(Strip(sections[i])), Rep("any", 0, FALSE),
    Ahead(IF i < Len(sections) THEN <<Strip(sections[i + 1])>> ELSE <<>>, TRUE)>>

\* match.group(1).strip()
SectionContent(text, m) == Strip(SubSeq(text, m.ends[1], m.ends[2] - 1))

SectionAt(items, text, s) ==
  IF s = 0 THEN [found |-> FALSE, content |-> <<>>]
  ELSE [found |-> TRUE, content |-> SectionContent(text, MatchAt(items, text, s))]

\* the text captured for sections[i]: from its first occurrence to the next title or the end
SectionMatches(text, sections, i) ==
  SectionAt(SectionPattern(sections, i), text, SearchFrom(SectionPattern(sections, i), text, 1))

\* the chunks of one section, m what was captured for it
ChunksOfMatch(section_title, m) ==
  IF m.found /\ Len(m.content) > MinSectionLen
    THEN IF Len(m.content) > SectionSplitLen
           THEN SplitSection(section_title, Split(m.content, BlankLine), 1, <<>>)
           ELSE <<SectionChunk(section_title, m.content)>>
    ELSE <<>>

ChunksOfSection(text, sections, i) ==
  ChunksOfMatch(sections[i], SectionMatches(text, sections, i))

RECURSIVE SectionChunksFrom(_, _, _)
SectionChunksFrom(text, sections, i) ==
  IF i > Len(sections) THEN <<>>
  ELSE ChunksOfSection(text, sections, i) \o SectionChunksFrom(text, sections, i + 1)

_create_section_chunks(text, sections) == SectionChunksFrom(text, sections, 1)

\* a chunk whose label does not follow the count
UnnumberedChunk(body, chunk_count) ==
  [text |-> body,
   topic |-> "textbook_content",
   source |-> "pdf_valuation",
   section |-> <<"c","h","u","n","k","_","0">>]

ParagraphChunk(body, chunk_count) ==
  [text |-> body,
   topic |-> "textbook_content",
   source |-> "pdf_valuation",
   section |-> <<"c","h","u","n","k","_">> \o Str(chunk_count)]

NonEmpty(p) == p # <<>>

\* a test that lets page headers through
SkipShortOnly(para) == Len(para) < MinParagraphLen

\* very short paragraphs and page headers are skipped
SkipParagraph(para) ==
  Len(para) < MinParagraphLen \/ Contains(Prefix(para, HeaderScanLen), PageWord)

\* the loop over paragraphs, from paragraph k on
RECURSIVE AccumulateParagraphs(_, _, _, _)
AccumulateParagraphs(paragraphs, k, current_chunk, chunk_count) ==
  IF k > Len(paragraphs)
    THEN IF current_chunk # <<>> THEN <<ParagraphChunk(current_chunk, chunk_count)>>
         ELSE <<>>
  ELSE LET para == paragraphs[k] IN
       IF SkipParagraph(para)
         THEN AccumulateParagraphs(paragraphs, k + 1, current_chunk, chunk_count)
       ELSE IF Len(current_chunk) + Len(para) > TargetChunkLen /\ current_chunk # <<>>
         THEN <<ParagraphChunk(current_chunk, chunk_count)>>
              \o AccumulateParagraphs(paragraphs, k + 1, para, chunk_count + 1)
       ELSE AccumulateParagraphs(paragraphs, k + 1,
              IF current_chunk # <<>> THEN current_chunk \o BlankLine \o para ELSE para,
              chunk_count)

_create_paragraph_chunks(text) ==
  LET paragraphs == SelectSeq(StripAll(Split(text, BlankLine)), NonEmpty)
  IN AccumulateParagraphs(paragraphs, 1, <<>>, 0)


(***************************************************************************)
(* FinancialRAG: the knowledge store and the retriever (src/rag.py)        *)
(***************************************************************************)

\* For Accounts Payable Days: use AVERAGE accounts payable balance, not end-of-period. Formula: (Average AP / COGS) * 365
RuleText1 ==
  <<"F","o","r"," ","A","c","c","o","u","n","t","s"," ","P","a","y","a","b","l","e"," ",
    "D","a","y","s",":"," ","u","s","e"," ","A","V","E","R","A","G","E"," ","a","c","c",
    "o","u","n","t","s"," ","p","a","y","a","b","l","e"," ","b","a","l","a","n","c","e",
    ","," ","n","o","t"," ","e","n","d","-","o","f","-","p","e","r","i","o","d","."," ",
    "F","o","r","m","u","l","a",":"," ","(","A","v","e","r","a","g","e"," ","A","P"," ",
    "/"," ","C","O","G","S",")"," ","*"," ","3","6","5">>

\* Diluted shares = Basic shares + dilutive securities (options, warrants, convertibles). Only include if dilutive (exercise price < current price).
RuleText2 ==
  <<"D","i","l","u","t","e","d"," ","s","h","a","r","e","s"," ","="," ","B","a","s","i",
    "c"," ","s","h","a","r","e","s"," ","+"," ","d","i","l","u","t","i","v","e"," ","s",
    "e","c","u","r","i","t","i","e","s"," ","(","o","p","t","i","o","n","s",","," ","w",
    "a","r","r","a","n","t","s",","," ","c","o","n","v","e","r","t","i","b","l","e","s",
    ")","."," ","O","n","l","y"," ","i","n","c","l","u","d","e"," ","i","f"," ","d","i",
    "l","u","t","i","v","e"," ","(","e","x","e","r","c","i","s","e"," ","p","r","i","c",
    "e"," ","<"," ","c","u","r","r","e","n","t"," ","p","r","i","c","e",")",".">>

\* EBITDA adjustments: Add back operating lease costs under new accounting standards (ASC 842). Operating leases are now capitalized.
RuleText3 ==
  <<"E","B","I","T","D","A"," ","a","d","j","u","s","t","m","e","n","t","s",":"," ","A",
    "d","d"," ","b","a","c","k"," ","o","p","e","r","a","t","i","n","g"," ","l","e","a",
    "s","e"," ","c","o","s","t","s"," ","u","n","d","e","r"," ","n","e","w"," ","a","c",
    "c","o","u","n","t","i","n","g"," ","s","t","a","n","d","a","r","d","s"," ","(","A",
    "S","C"," ","8","4","2",")","."," ","O","p","e","r","a","t","i","n","g"," ","l","e",
    "a","s","e","s"," ","a","r","e"," ","n","o","w"," ","c","a","p","i","t","a","l","i",
    "z","e","d",".">>

\* Variable lease assets estimation: If not stated, assume ratio of variable lease assets to operating lease assets equals ratio of variable lease costs to total operating lease costs.
RuleText4 ==
  <<"V","a","r","i","a","b","l","e"," ","l","e","a","s","e"," ","a","s","s","e","t","s",
    " ","e","s","t","i","m","a","t","i","o","n",":"," ","I","f"," ","n","o","t"," ","s",
    "t","a","t","e","d",","," ","a","s","s","u","m","e"," ","r","a","t","i","o"," ","o",
    "f"," ","v","a","r","i","a","b","l","e"," ","l","e","a","s","e"," ","a","s","s","e",
    "t","s"," ","t","o"," ","o","p","e","r","a","t","i","n","g"," ","l","e","a","s","e",
    " ","a","s","s","e","t","s"," ","e","q","u","a","l","s"," ","r","a","t","i","o"," ",
    "o","f"," ","v","a","r","i","a","b","l","e"," ","l","e","a","s","e"," ","c","o","s",
    "t","s"," ","t","o"," ","t","o","t","a","l"," ","o","p","e","r","a","t","i","n","g",
    " ","l","e","a","s","e"," ","c","o","s","t","s",".">>

\* Working cash assumption: Use 2% of revenue when specific working cash requirements not provided. Take minimum of total cash or calculated amount.
RuleText5 ==
  <<"W","o","r","k","i","n","g"," ","c","a","s","h"," ","a","s","s","u","m","p","t","i",
    "o","n",":"," ","U","s","e"," ","2","%"," ","o","f"," ","r","e","v","e","n","u","e",
    " ","w","h","e","n"," ","s","p","e","c","i","f","i","c"," ","w","o","r","k","i","n",
    "g"," ","c","a","s","h"," ","r","e","q","u","i","r","e","m","e","n","t","s"," ","n",
    "o","t"," ","p","r","o","v","i","d","e","d","."," ","T","a","k","e"," ","m","i","n",
    "i","m","u","m"," ","o","f"," ","t","o","t","a","l"," ","c","a","s","h"," ","o","r",
    " ","c","a","l","c","u","l","a","t","e","d"," ","a","m","o","u","n","t",".">>

\* a rule set that lost its last rule
FourRules ==
  <<[text |-> RuleText1, topic |-> "working_capital"],
    [text |-> RuleText2, topic |-> "diluted_shares"],
    [text |-> RuleText3, topic |-> "ebitda"],
    [text |-> RuleText4, topic |-> "lease_analysis"]>>

\* _get_financial_rules()
_get_financial_rules ==
  <<[text |-> RuleText1, topic |-> "working_capital"],
    [text |-> RuleText2, topic |-> "diluted_shares"],
    [text |-> RuleText3, topic |-> "ebitda"],
    [text |-> RuleText4, topic |-> "lease_analysis"],
    [text |-> RuleText5, topic |-> "working_capital"]>>

\* one page of a PDF: extract_text() raises, or returns text
PageRaises == [raises |-> TRUE, text |-> <<>>]

\* a page of white space only
PageBlank == [raises |-> FALSE, text |-> <<" ", NL>>]

\* Valuation notes\n\nThe value of a firm is the present value of its expected cash flows.
PageProse ==
  [raises |-> FALSE,
   text |-> <<"V","a","l","u","a","t","i","o","n"," ","n","o","t","e","s","\n","\n","T","h","e",
            " ","v","a","l","u","e"," ","o","f"," ","a"," ","f","i","r","m"," ","i","s"," ","t",
            "h","e"," ","p","r","e","s","e","n","t"," ","v","a","l","u","e"," ","o","f"," ","i",
            "t","s"," ","e","x","p","e","c","t","e","d"," ","c","a","s","h"," ","f","l","o","w",
            "s",".">>]

\* Contents\n1.1 Valuation Basics\n2.1 Cash Flow Models\n\n1.1 Valuation Basics\nThe value of a firm is the present value of its expected cash flows, discounted at a rate that reflects their risk.\n\n2.1 Cash Flow Models\nFree cash flow to the firm.
PageToc ==
  [raises |-> FALSE,
   text |-> <<"C","o","n","t","e","n","t","s","\n","1",".","1"," ","V","a","l","u","a","t","i",
            "o","n"," ","B","a","s","i","c","s","\n","2",".","1"," ","C","a","s","h"," ","F",
            "l","o","w"," ","M","o","d","e","l","s","\n","\n","1",".","1"," ","V","a","l","u",
            "a","t","i","o","n"," ","B","a","s","i","c","s","\n","T","h","e"," ","v","a","l",
            "u","e"," ","o","f"," ","a"," ","f","i","r","m"," ","i","s"," ","t","h","e"," ","p",
            "r","e","s","e","n","t"," ","v","a","l","u","e"," ","o","f"," ","i","t","s"," ","e",
            "x","p","e","c","t","e","d"," ","c","a","s","h"," ","f","l","o","w","s",","," ","d",
            "i","s","c","o","u","n","t","e","d"," ","a","t"," ","a"," ","r","a","t","e"," ","t",
            "h","a","t"," ","r","e","f","l","e","c","t","s"," ","t","h","e","i","r"," ","r","i",
            "s","k",".","\n","\n","2",".","1"," ","C","a","s","h"," ","F","l","o","w"," ","M",
            "o","d","e","l","s","\n","F","r","e","e"," ","c","a","s","h"," ","f","l","o","w",
            " ","t","o"," ","t","h","e"," ","f","i","r","m",".">>]

PageKinds == {PageRaises, PageBlank, PageProse, PageToc}

MaxPages == 2

\* the page sequences PyPDF2 may give for a readable file
RECURSIVE SeqsUpTo(_, _)
SeqsUpTo(S, n) ==
  IF n = 0 THEN {<<>>}
  ELSE LET shorter == SeqsUpTo(S, n - 1)
       IN shorter \cup {Append(d, x) : d \in shorter, x \in S}

Documents == SeqsUpTo(PageKinds, MaxPages)

\* textbook_path: None, "", a path that does not exist, a file open() refuses,
\* a file PdfReader cannot parse, a readable PDF
Paths == {"None", "", "missing.pdf", "locked.pdf", "corrupt.pdf", "book.pdf"}

\* textbook_path and os.path.exists(textbook_path)
PathUsable(path) == path \notin {"None", ""} /\ path # "missing.pdf"

\* f"\n--- Page {page_num + 1} ---\n{page_text}"
PageBlock(page_num, page_text) ==
  <<NL>> \o <<"-","-","-">> \o <<" ">> \o PageWord \o <<" ">> \o Str(page_num + 1)
       \o <<" ">> \o <<"-","-","-">> \o <<NL>> \o page_text

\* what one turn of the page loop does to full_text
ExtractPage(text, page_num, page) ==
  IF page.raises THEN text                          \* except Exception: continue
  ELSE IF Strip(page.text) # <<>> THEN text \o PageBlock(page_num, page.text)
  ELSE text

\* a choice that runs the paragraph chunker after the section chunker
BothModes(text, toc_sections) ==
  IF toc_sections # <<>>
    THEN _create_section_chunks(text, toc_sections) \o _create_paragraph_chunks(text)
    ELSE _create_paragraph_chunks(text)

\* the part of _process_pdf_textbook after the page loop
ChunksWith(text, toc_sections) ==
  IF toc_sections # <<>> THEN _create_section_chunks(text, toc_sections)
  ELSE _create_paragraph_chunks(text)

ChunkText(text) ==
  IF Strip(text) = <<>> THEN <<>> ELSE ChunksWith(text, _extract_toc_sections(text))

\* SentenceTransformer('all-MiniLM-L6-v2') is a fixed function from text to vectors
\* that the code does not define.  Here a model sees a text through EmbedKey only
\* and gives texts of different keys different vectors.
VecA == <<10, 0, 0, 0>>

VecB == <<3, 9, 3, 1>>

VecC == <<0, 5, 0, 0>>

VecD == <<8, 6, 0, 0>>

Vectors == <<VecA, VecB, VecC, VecD>>

EmbedKeys == 4

EmbedKey(text) == Len(text) % EmbedKeys

MaxShift == 1

\* one pretrained model: key -> vector
Model(r) == [k \in 0..(EmbedKeys - 1) |-> Vectors[((k + r) % Len(Vectors)) + 1]]

\* the models that may be the one on disk
Models == {Model(r) : r \in 0..MaxShift}

Dot(a, b) == a[1] * b[1] + a[2] * b[2] + a[3] * b[3] + a[4] * b[4]

Norm(a) == CHOOSE n \in 0..Dot(a, a) : n * n = Dot(a, a)

\* sklearn's cosine_similarity of two vectors, in hundredths
cosine_similarity(a, b) == (100 * Dot(a, b)) \div (Norm(a) * Norm(b))

\* similarities[idx] > 0.3
SimilarityFloor == 30

\* definition of EBITDA
QuestionEbitda == <<"d","e","f","i","n","i","t","i","o","n"," ","o","f"," ","E","B","I","T","D","A">>

\* What is Microsoft's diluted shares outstanding?
QuestionShares ==
  <<"W","h","a","t"," ","i","s"," ","M","i","c","r","o","s","o","f","t","'","s"," ","d",
    "i","l","u","t","e","d"," ","s","h","a","r","e","s"," ","o","u","t","s","t","a","n",
    "d","i","n","g","?">>

Questions == {QuestionEbitda, QuestionShares}

MaxTopK == 5

TopKs == (-1)..MaxTopK

\* np.argsort(similarities): the orders of the indices by ascending similarity.
\* The default sort is not stable, so equal similarities may come in any order.
RECURSIVE Argsorts(_, _)
Argsorts(sims, left) ==
  IF left = {} THEN {<<>>}
  ELSE LET least == {i \in left : \A j \in left : sims[i] <= sims[j]}
       IN UNION {{<<i>> \o rest : rest \in Argsorts(sims, left \ {i})} : i \in least}

\* order[-top_k:]: the last top_k, all of it for top_k = 0, order[|top_k|:] below 0
LastK(order, top_k) ==
  LET n == Len(order)
      start == IF top_k > 0 THEN (IF n - top_k > 0 THEN n - top_k ELSE 0)
               ELSE Min(-top_k, n)
  IN SubSeq(order, start + 1, n)

\* order[::-1]
Reverse(order) == [i \in 1..Len(order) |-> order[Len(order) + 1 - i]]

\* the slice without the reversal: np.argsort(similarities)[-top_k:]
UnreversedIndices(order, top_k) == LastK(order, top_k)

\* top_indices for one outcome of argsort
TopIndices(order, top_k) == Reverse(LastK(order, top_k))

\* [idx for idx in top_indices if similarities[idx] > 0.3]
AboveFloor(top_indices, sims) ==
  LET Keep(idx) == sims[idx] > SimilarityFloor IN SelectSeq(top_indices, Keep)


VARIABLES
  \* FinancialRAG
  textbook_path,     \* the constructor's argument
  pdf_file,          \* the pages of the PDF at book.pdf
  rag_pc,            \* where FinancialRAG.__init__ stands
  page_num,          \* pages of pdf_reader.pages dealt with so far
  full_text,
  pdf_chunks,
  knowledge_chunks,
  embedder,          \* the pretrained embedding model: key -> vector
  chunk_embeddings,
  last_query,        \* the last call of query and what it returned
  \* retry_with_exponential_backoff
  max_retries,
  max_delay,
  attempt,
  retry_pc,          \* where the retry loop stands
  trace,             \* the calls of func and the sleeps so far, in order
  retry_value,       \* what was returned or raised
  \* FinanceQAAgent.evaluate_on_dataset
  max_workers,
  eval_pc,           \* where the main thread stands
  question_data,
  tasks,             \* the futures: one per submitted question
  results,
  completed_count,
  benchmark,         \* the BenchmarkResults returned
  \* _process_pdf_textbook after the page loop, step by step
  doc_text,          \* the text handed to the segmenter and the chunkers
  chunk_pc,          \* where the chunking stands, at the end the mode that ran
  toc_pattern,       \* the place in toc_patterns of the lead-in to scan next
  scanned,           \* the lead-ins scanned so far, in order, each with the candidates it gave
  raw_sections,      \* sections, the raw title candidates
  cleaned_sections,
  text_chunks,       \* the chunks returned
  \* save_results
  save_pc,           \* where main stands with save_results
  csv_file,          \* the CSV at output_path
  report_file,       \* the lines of the report written so far
  save_error         \* the exception that left save_results, if any

rag_vars == <<textbook_path, pdf_file, rag_pc, page_num, full_text, pdf_chunks,
              knowledge_chunks, embedder, chunk_embeddings, last_query>>

retry_vars == <<max_retries, max_delay, attempt, retry_pc, trace, retry_value>>

eval_vars == <<max_workers, eval_pc, question_data, tasks, results, completed_count,
               benchmark>>

chunk_vars == <<doc_text, chunk_pc, toc_pattern, scanned, raw_sections, cleaned_sections,
                text_chunks>>

save_vars == <<save_pc, csv_file, report_file, save_error>>

vars == <<rag_vars, retry_vars, eval_vars, chunk_vars, save_vars>>

NoQuery == [called |-> FALSE]

RagInit ==
  /\ textbook_path \in Paths
  /\ pdf_file \in (IF textbook_path = "book.pdf" THEN Documents ELSE {<<>>})
  /\ rag_pc = "new"
  /\ page_num = 0
  /\ full_text = <<>>
  /\ pdf_chunks = <<>>
  /\ knowledge_chunks = <<>>
  /\ embedder \in Models
  /\ chunk_embeddings = <<>>
  /\ last_query = NoQuery

\* __init__, lines 21-28: load the model (a failure is fatal), take the rules,
\* and decide whether there is a textbook to read
LoadModel ==
  /\ rag_pc = "new"
  /\ \/ /\ knowledge_chunks' = _get_financial_rules
        /\ rag_pc' = IF PathUsable(textbook_path) THEN "open" ELSE "embed"
     \/ /\ rag_pc' = "failed"
        /\ UNCHANGED knowledge_chunks
  /\ UNCHANGED <<textbook_path, pdf_file, page_num, full_text, pdf_chunks, embedder,
                 chunk_embeddings, last_query>>
  /\ UNCHANGED <<retry_vars, eval_vars, chunk_vars, save_vars>>

\* a handler that lets the error out of _process_pdf_textbook
ProcessingRaises == [pc |-> "raised", chunks |-> <<>>]

\* except Exception as e: return []   (the handler around all of _process_pdf_textbook)
ProcessingFailed == [pc |-> "extend", chunks |-> <<>>]

\* _process_pdf_textbook, lines 75-79: open the file and the reader
OpenPdf ==
  /\ rag_pc = "open"
  /\ IF textbook_path \in {"locked.pdf", "corrupt.pdf"}
       THEN /\ rag_pc' = ProcessingFailed.pc
            /\ pdf_chunks' = ProcessingFailed.chunks
       ELSE /\ rag_pc' = "pages"
            /\ UNCHANGED pdf_chunks
  /\ page_num' = 0
  /\ full_text' = <<>>
  /\ UNCHANGED <<textbook_path, pdf_file, knowledge_chunks, embedder, chunk_embeddings,
                 last_query>>
  /\ UNCHANGED <<retry_vars, eval_vars, chunk_vars, save_vars>>

\* a handler that gives up on the document: no page after the failed one is read
AbortPages(n, total) == total

\* except Exception as e: continue   (the handler around one page): the next page
AfterPage(n, total) == n + 1

\* lines 80-87: one turn of the page loop
ReadPage ==
  /\ rag_pc = "pages"
  /\ page_num < Len(pdf_file)
  /\ full_text' = ExtractPage(full_text, page_num, pdf_file[page_num + 1])
  /\ page_num' = IF pdf_file[page_num + 1].raises
                   THEN AfterPage(page_num, Len(pdf_file))
                   ELSE page_num + 1
  /\ UNCHANGED <<textbook_path, pdf_file, rag_pc, pdf_chunks, knowledge_chunks,
                 embedder, chunk_embeddings, last_query>>
  /\ UNCHANGED <<retry_vars, eval_vars, chunk_vars, save_vars>>

\* line 89: the loop is over
EndOfPages ==
  /\ rag_pc = "pages"
  /\ page_num >= Len(pdf_file)
  /\ rag_pc' = "chunk"
  /\ UNCHANGED <<textbook_path, pdf_file, page_num, full_text, pdf_chunks,
                 knowledge_chunks, embedder, chunk_embeddings, last_query>>
  /\ UNCHANGED <<retry_vars, eval_vars, chunk_vars, save_vars>>

\* lines 89-101: chunk what was extracted and return; the locals are gone
ChunkPdf ==
  /\ rag_pc = "chunk"
  /\ pdf_chunks' = ChunkText(full_text)
  /\ rag_pc' = "extend"
  /\ page_num' = 0
  /\ full_text' = <<>>
  /\ UNCHANGED <<textbook_path, pdf_file, knowledge_chunks, embedder, chunk_embeddings,
                 last_query>>
  /\ UNCHANGED <<retry_vars, eval_vars, chunk_vars, save_vars>>

\* __init__, line 31: self.knowledge_chunks.extend(pdf_chunks)
ExtendChunks ==
  /\ rag_pc = "extend"
  /\ knowledge_chunks' = knowledge_chunks \o pdf_chunks
  /\ pdf_chunks' = <<>>
  /\ rag_pc' = "embed"
  /\ UNCHANGED <<textbook_path, pdf_file, page_num, full_text, embedder,
                 chunk_embeddings, last_query>>
  /\ UNCHANGED <<retry_vars, eval_vars, chunk_vars, save_vars>>

\* self.embedder.encode(texts): one vector per text, in order
Encode(model, texts) == [i \in 1..Len(texts) |-> model[EmbedKey(texts[i])]]

\* the texts of the chunks that were there before the document's were added
TextsBeforeExtend(chunks) ==
  [i \in 1..Min(Len(_get_financial_rules), Len(chunks)) |-> chunks[i].text]

\* chunk_texts = [chunk['text'] for chunk in chunks]
ChunkTexts(chunks) == [i \in 1..Len(chunks) |-> chunks[i].text]

\* __init__, lines 35-36: embed every chunk; the constructor returns
EmbedChunks ==
  /\ rag_pc = "embed"
  /\ chunk_embeddings' = Encode(embedder, ChunkTexts(knowledge_chunks))
  /\ rag_pc' = "ready"
  /\ UNCHANGED <<textbook_path, pdf_file, page_num, full_text, pdf_chunks,
                 knowledge_chunks, embedder, last_query>>
  /\ UNCHANGED <<retry_vars, eval_vars, chunk_vars, save_vars>>

\* similarities = cosine_similarity(query_embedding, self.chunk_embeddings)[0]
Similarities(query_embedding, embeddings) ==
  [i \in 1..Len(embeddings) |-> cosine_similarity(query_embedding, embeddings[i])]

\* query(question, top_k), lines 66-70, for one outcome of argsort
QueryReturns(question, top_k, model, embeddings, order) ==
  LET similarities == Similarities(Encode(model, <<question>>)[1], embeddings)
      top_indices == TopIndices(order, top_k)
  IN [called |-> TRUE, question |-> question, top_k |-> top_k,
      similarities |-> similarities,
      result |-> AboveFloor(top_indices, similarities)]

\* a call of query on the finished store
Query ==
  /\ rag_pc = "ready"
  /\ ~last_query.called
  /\ \E question \in Questions, top_k \in TopKs :
       LET sims == Similarities(Encode(embedder, <<question>>)[1], chunk_embeddings) IN
       \E order \in Argsorts(sims, DOMAIN sims) :
         last_query' = QueryReturns(question, top_k, embedder, chunk_embeddings, order)
  /\ UNCHANGED <<textbook_path, pdf_file, rag_pc, page_num, full_text, pdf_chunks,
                 knowledge_chunks, embedder, chunk_embeddings>>
  /\ UNCHANGED <<retry_vars, eval_vars, chunk_vars, save_vars>>

\* the caller is done with what query returned
DropResult ==
  /\ last_query.called
  /\ last_query' = NoQuery
  /\ UNCHANGED <<textbook_path, pdf_file, rag_pc, page_num, full_text, pdf_chunks,
                 knowledge_chunks, embedder, chunk_embeddings>>
  /\ UNCHANGED <<retry_vars, eval_vars, chunk_vars, save_vars>>

\* the chunks query returned: the entries of knowledge_chunks at result
Returned == [i \in 1..Len(last_query.result) |-> knowledge_chunks[last_query.result[i]]]



(***************************************************************************)
(* retry_with_exponential_backoff (src/utils.py)                           *)
(***************************************************************************)

MaxRetries == 4

DefaultRetries == 5         \* max_retries: int = 5

BaseDelay == 1              \* base_delay: float = 1.0

\* the values of max_delay tried: one that cuts the delays, and the default
DelayCaps == {3, 60}

\* random.uniform(0, 1), at its two ends
Jitters == {0, 1}

\* what one call of func may do: return, raise openai.RateLimitError, raise another error
Outcomes == {"ok", "rate_limit", "error"}

\* the response or the exception of call number n of func
Outcome(kind, n) == [kind |-> kind, call |-> n]

\* Python's None
NoValue == [kind |-> "none", call |-> 0]

Call(outcome) == [event |-> "call", outcome |-> outcome, delay |-> 0]

Sleep(delay) == [event |-> "sleep", outcome |-> NoValue, delay |-> delay]

RECURSIVE Pow2(_)
Pow2(n) == IF n = 0 THEN 1 ELSE 2 * Pow2(n - 1)

\* delay = min(base_delay * (2 ** attempt) + random.uniform(0, 1), max_delay)
Delay(n, jitter, cap) == Min(BaseDelay * Pow2(n) + jitter, cap)

\* a loop that backs off on every error, whatever its class
AfterAnyError(kind, n, retries) ==
  IF kind = "ok" THEN "returned"
  ELSE IF n = retries - 1 THEN "raised" ELSE "backoff"

\* a loop whose last-attempt test is off by one: attempt == max_retries
AfterCallOffByOne(kind, n, retries) ==
  CASE kind = "ok" -> "returned"
    [] kind = "rate_limit" -> IF n = retries THEN "raised" ELSE "backoff"
    [] OTHER -> "raised"

\* what the loop does when call number n + 1 of func ended with kind
AfterCall(kind, n, retries) ==
  CASE kind = "ok" -> "returned"                             \* return func()
    [] kind = "rate_limit" ->                                \* except openai.RateLimitError
         IF n = retries - 1 THEN "raised" ELSE "backoff"
    [] OTHER -> "raised"                                     \* except Exception as e: raise

RetryInit ==
  /\ max_retries \in 0..MaxRetries
  /\ max_delay \in DelayCaps
  /\ attempt = 0
  /\ retry_pc = "loop"
  /\ trace = <<>>
  /\ retry_value = NoValue

\* no call of retry_with_exponential_backoff is followed step by step
RetryIdle ==
  /\ max_retries = DefaultRetries
  /\ max_delay = 60
  /\ attempt = 0
  /\ retry_pc = "idle"
  /\ trace = <<>>
  /\ retry_value = NoValue

\* one turn of the loop up to the end of func(): lines 21-23, 24-26, 33-34
CallFunc ==
  /\ retry_pc = "loop"
  /\ attempt < max_retries
  /\ \E kind \in Outcomes :
       /\ trace' = Append(trace, Call(Outcome(kind, attempt + 1)))
       /\ retry_pc' = AfterCall(kind, attempt, max_retries)
       /\ retry_value' = IF AfterCall(kind, attempt, max_retries) = "backoff"
                           THEN retry_value
                           ELSE Outcome(kind, attempt + 1)
  /\ UNCHANGED <<max_retries, max_delay, attempt>>
  /\ UNCHANGED <<rag_vars, eval_vars, chunk_vars, save_vars>>

\* lines 28-31: time.sleep(delay), then the next turn
Backoff ==
  /\ retry_pc = "backoff"
  /\ \E jitter \in Jitters :
       trace' = Append(trace, Sleep(Delay(attempt, jitter, max_delay)))
  /\ attempt' = attempt + 1
  /\ retry_pc' = "loop"
  /\ UNCHANGED <<max_retries, max_delay, retry_value>>
  /\ UNCHANGED <<rag_vars, eval_vars, chunk_vars, save_vars>>

\* range(max_retries) is used up without a return or a raise: the function returns None
FallThrough ==
  /\ retry_pc = "loop"
  /\ attempt >= max_retries
  /\ retry_pc' = "returned"
  /\ retry_value' = NoValue
  /\ UNCHANGED <<max_retries, max_delay, attempt, trace>>
  /\ UNCHANGED <<rag_vars, eval_vars, chunk_vars, save_vars>>

\* how a whole call of retry_with_exponential_backoff may end, from attempt n on
RECURSIVE RetryResults(_, _)
RetryResults(n, retries) ==
  IF n >= retries THEN {"none"}
  ELSE UNION {IF AfterCall(kind, n, retries) = "returned" THEN {"ok"}
              ELSE IF AfterCall(kind, n, retries) = "raised" THEN {kind}
              ELSE RetryResults(n + 1, retries) : kind \in Outcomes}


(***************************************************************************)
(* FinanceQAAgent (src/agent.py)                                           *)
(***************************************************************************)

MaxQuestions == 2

MaxWorkers == 2

QueryTopK == 5              \* self.rag.query(question, top_k=5)

AnswerConfidence == 80      \* 'confidence': 0.8, in hundredths

\* Revenue: 100
SomeContext == <<"R","e","v","e","n","u","e",":"," ","1","0","0">>

\* Assumption
TypeAssumption == <<"A","s","s","u","m","p","t","i","o","n">>

\* str.lower()
LowerAll(text) == [i \in DOMAIN text |-> Lower(text[i])]

\* Conceptual
TypeConceptual == <<"C","o","n","c","e","p","t","u","a","l">>

\* row idx of the CSV, after the subset selection: rows with and without a
\* question_type, with a context and with a blank one
Row(idx) ==
  [question |-> IF idx % 2 = 0 THEN QuestionShares ELSE QuestionEbitda,
   context |-> IF idx % 3 = 2 THEN <<" ">> ELSE SomeContext,
   question_type |-> CASE idx % 3 = 0 -> <<>>
                       [] idx % 3 = 1 -> TypeConceptual
                       [] OTHER -> TypeAssumption]

QuestionTypes == {"basic_tactical", "assumption_tactical", "conceptual"}

\* lines 191-197: normalize the question type
QType(q_type_raw, context) ==
  IF Contains(q_type_raw, <<"a","s","s","u","m","p","t","i","o","n">>)
    THEN "assumption_tactical"
  ELSE IF Contains(q_type_raw, <<"c","o","n","c","e","p","t","u","a","l">>)
    THEN "conceptual"
  ELSE IF Strip(context) # <<>> THEN "basic_tactical" ELSE "conceptual"

\* lines 180-205: the entry of question_data for row idx
QuestionData(idx) ==
  [question_id |-> <<"q", "_">> \o Str(idx),
   question |-> Row(idx).question,
   context |-> Row(idx).context,
   q_type |-> QType(LowerAll(Row(idx).question_type), Row(idx).context)]

\* f"Error: {e}" for an exception of kind e
ErrorAnswer(e) == IF e = "rate_limit" THEN "Error: rate_limit" ELSE "Error: error"

\* "rate_limit" in str(e).lower() or "429" in str(e)
RateLimited(e) == e = "rate_limit"

EvaluationResult(question_id, agent_answer, is_correct, confidence_score, question_type, reasoning_analysis, rag_found) ==
  [question_id |-> question_id, agent_answer |-> agent_answer, is_correct |-> is_correct,
   confidence_score |-> confidence_score, question_type |-> question_type,
   reasoning_analysis |-> reasoning_analysis, rag_found |-> rag_found]

\* EvaluationResult(question_id, question, f"Error: {e}", expected, False, 0.0, q_type,
\*                  str(e), False, "")
FailedResult(data, e) ==
  EvaluationResult(data.question_id, ErrorAnswer(e), FALSE, 0, data.q_type, e, FALSE)

\* answer_question, lines 119-137: the dictionary returned after the API call
Response(outcome, rag_found) ==
  IF outcome = "ok"
    THEN [answer |-> "answer", confidence |-> AnswerConfidence, rag_found |-> rag_found]
    ELSE [answer |-> ErrorAnswer(outcome), confidence |-> 0, rag_found |-> FALSE]

NoResponse == [answer |-> "", confidence |-> 0, rag_found |-> FALSE]

\* evaluate_answer: the verdict of the judge, or (False, f"Evaluation failed: {e}")
Judgement(outcome, verdict) ==
  IF outcome = "ok" THEN [is_correct |-> verdict, reasoning |-> "judged"]
  ELSE [is_correct |-> FALSE, reasoning |-> "Evaluation failed"]

\* what a future holds
NoOutcome == [kind |-> "none", result |-> <<>>, error |-> ""]

Result(result) == [kind |-> "result", result |-> result, error |-> ""]

Exception(e) == [kind |-> "exception", result |-> <<>>, error |-> e]

\* executor.submit(self._process_single_question, data)
NewTask ==
  [stage |-> "queued", rag_found |-> FALSE, response |-> NoResponse, failure |-> "none",
   outcome |-> NoOutcome, collected |-> FALSE]

Running(task) == task.stage \in {"retrieved", "answered"}

\* a collector that leaves out every result that carries an error
KeepAnswered(collected, data, outcome) ==
  IF outcome.kind = "result" /\ outcome.result.agent_answer = "answer"
    THEN Append(collected, outcome.result)
    ELSE collected

\* lines 226-254: results after future.result() gave outcome
AfterFuture(collected, data, outcome) ==
  IF outcome.kind = "result" THEN Append(collected, outcome.result)
  ELSE IF RateLimited(outcome.error) THEN collected        \* continue
  ELSE Append(collected, FailedResult(data, outcome.error))

\* completed_count after the same
CountAfterFuture(count, outcome) ==
  IF outcome.kind = "exception" /\ RateLimited(outcome.error) THEN count ELSE count + 1

IsCorrect(r) == r.is_correct

\* correct / total, as the pair <<correct, total>>; 0 when there is nothing to divide by
Ratio(correct, total) == IF total > 0 THEN <<correct, total>> ELSE <<0, 1>>

OfType(rs, q_type) == LET Is(r) == r.question_type = q_type IN SelectSeq(rs, Is)

\* metrics with an entry for every question type, results or not
AllTypesBenchmark(rs) ==
  [overall_accuracy |-> Ratio(Len(SelectSeq(rs, IsCorrect)), Len(rs)),
   by_type_accuracy |->
     [q_type \in QuestionTypes |->
        Ratio(Len(SelectSeq(OfType(rs, q_type), IsCorrect)), Len(OfType(rs, q_type)))],
   detailed_results |-> rs,
   total_questions |-> Len(rs),
   total_correct |-> Len(SelectSeq(rs, IsCorrect))]

\* lines 256-287
BenchmarkResults(rs) ==
  [overall_accuracy |-> Ratio(Len(SelectSeq(rs, IsCorrect)), Len(rs)),
   by_type_accuracy |->
     [q_type \in {t \in QuestionTypes : Len(OfType(rs, t)) > 0} |->
        <<Len(SelectSeq(OfType(rs, q_type), IsCorrect)), Len(OfType(rs, q_type))>>],
   detailed_results |-> rs,
   total_questions |-> Len(rs),
   total_correct |-> Len(SelectSeq(rs, IsCorrect))]

\* BenchmarkResults(0.0, {}, [], 0, 0)
EmptyBenchmark ==
  [overall_accuracy |-> <<0, 1>>, by_type_accuracy |-> <<>>, detailed_results |-> <<>>,
   total_questions |-> 0, total_correct |-> 0]

NoBenchmark == [returned |-> FALSE]

\* an agent whose evaluation may start once the chunks are there
HasChunks(pc) == pc \in {"embed", "ready"}

\* FinanceQAAgent.__init__ has returned: self.rag is a finished FinancialRAG
Constructed(pc) == pc = "ready"

EvalIdle ==
  /\ max_workers = 1
  /\ eval_pc = "off"
  /\ question_data = <<>>
  /\ tasks = <<>>
  /\ results = <<>>
  /\ completed_count = 0
  /\ benchmark = NoBenchmark

EvalInit ==
  /\ max_workers \in 1..MaxWorkers
  /\ eval_pc = "idle"
  /\ question_data = <<>>
  /\ tasks = <<>>
  /\ results = <<>>
  /\ completed_count = 0
  /\ benchmark = NoBenchmark

\* evaluate_on_dataset, lines 155-207: read the CSV and prepare question_data
LoadDataset ==
  /\ eval_pc = "idle"
  /\ Constructed(rag_pc)
  /\ \/ /\ eval_pc' = "done"                       \* except Exception as e: return
        /\ benchmark' = [returned |-> TRUE, timed |-> FALSE] @@ EmptyBenchmark
        /\ UNCHANGED question_data
     \/ /\ \E n \in 0..MaxQuestions :
             question_data' = [i \in 1..n |-> QuestionData(i - 1)]
        /\ eval_pc' = "submit"
        /\ UNCHANGED benchmark
  /\ UNCHANGED <<max_workers, tasks, results, completed_count>>
  /\ UNCHANGED <<rag_vars, retry_vars, chunk_vars, save_vars>>

\* lines 218-222: one turn of the submit loop
Submit ==
  /\ eval_pc = "submit"
  /\ Len(tasks) < Len(question_data)
  /\ tasks' = Append(tasks, NewTask)
  /\ UNCHANGED <<max_workers, eval_pc, question_data, results, completed_count, benchmark>>
  /\ UNCHANGED <<rag_vars, retry_vars, chunk_vars, save_vars>>

\* line 225: every question is submitted; as_completed starts
AllSubmitted ==
  /\ eval_pc = "submit"
  /\ Len(tasks) = Len(question_data)
  /\ eval_pc' = "collect"
  /\ UNCHANGED <<max_workers, question_data, tasks, results, completed_count, benchmark>>
  /\ UNCHANGED <<rag_vars, retry_vars, chunk_vars, save_vars>>

\* a worker thread takes the oldest queued question: _process_single_question up to
\* answer_question, line 40 (the retrieval, when there is a context)
StartQuestion(i) ==
  /\ tasks[i].stage = "queued"
  /\ \A j \in 1..(i - 1) : tasks[j].stage # "queued"
  /\ Cardinality({j \in DOMAIN tasks : Running(tasks[j])}) < max_workers
  /\ IF Strip(question_data[i].context) # <<>>
       THEN \/ \E order \in Argsorts(Similarities(Encode(embedder, <<question_data[i].question>>)[1],
                                                  chunk_embeddings),
                                     DOMAIN chunk_embeddings) :
                 tasks' = [tasks EXCEPT
                   ![i].stage = "retrieved",
                   ![i].rag_found =
                      Len(QueryReturns(question_data[i].question, QueryTopK, embedder,
                                       chunk_embeddings, order).result) > 0]
            \/ tasks' = [tasks EXCEPT                    \* query raises
                 ![i].stage = "finished",
                 ![i].failure = "query",
                 ![i].outcome = Result(FailedResult(question_data[i], "error"))]
       ELSE tasks' = [tasks EXCEPT ![i].stage = "retrieved"]
  /\ UNCHANGED <<max_workers, eval_pc, question_data, results, completed_count, benchmark>>
  /\ UNCHANGED <<rag_vars, retry_vars, chunk_vars, save_vars>>

\* answer_question, lines 88-137: the API call under retry, and the answer made of it
CallModel(i) ==
  /\ tasks[i].stage = "retrieved"
  /\ \E outcome \in RetryResults(0, DefaultRetries) :
       tasks' = [tasks EXCEPT
         ![i].stage = "answered",
         ![i].failure = IF outcome = "ok" THEN "none" ELSE "answer",
         ![i].response = Response(outcome, tasks[i].rag_found)]
  /\ UNCHANGED <<max_workers, eval_pc, question_data, results, completed_count, benchmark>>
  /\ UNCHANGED <<rag_vars, retry_vars, chunk_vars, save_vars>>

\* _process_single_question, lines 305-318: the judge's call under retry, and the result
EvaluateAnswer(i) ==
  /\ tasks[i].stage = "answered"
  /\ \E outcome \in RetryResults(0, DefaultRetries), verdict \in BOOLEAN :
       tasks' = [tasks EXCEPT
         ![i].stage = "finished",
         ![i].failure = IF outcome = "ok" THEN tasks[i].failure ELSE "evaluate",
         ![i].outcome = Result(EvaluationResult(
             question_data[i].question_id, tasks[i].response.answer,
             Judgement(outcome, verdict).is_correct, tasks[i].response.confidence,
             question_data[i].q_type, Judgement(outcome, verdict).reasoning,
             tasks[i].response.rag_found))]
  /\ UNCHANGED <<max_workers, eval_pc, question_data, results, completed_count, benchmark>>
  /\ UNCHANGED <<rag_vars, retry_vars, chunk_vars, save_vars>>

\* lines 225-254: one turn of the loop over as_completed
Collect(i) ==
  /\ eval_pc = "collect"
  /\ tasks[i].stage = "finished"
  /\ ~tasks[i].collected
  /\ results' = AfterFuture(results, question_data[i], tasks[i].outcome)
  /\ completed_count' = CountAfterFuture(completed_count, tasks[i].outcome)
  /\ tasks' = [tasks EXCEPT ![i].collected = TRUE]
  /\ UNCHANGED <<max_workers, eval_pc, question_data, benchmark>>
  /\ UNCHANGED <<rag_vars, retry_vars, chunk_vars, save_vars>>

\* lines 256-290: every future was handed over; the metrics, and the return
Finish ==
  /\ eval_pc = "collect"
  /\ \A i \in DOMAIN tasks : tasks[i].collected
  /\ benchmark' = [returned |-> TRUE, timed |-> TRUE] @@ BenchmarkResults(results)
  /\ eval_pc' = "done"
  /\ UNCHANGED <<max_workers, question_data, tasks, results, completed_count>>
  /\ UNCHANGED <<rag_vars, retry_vars, chunk_vars, save_vars>>


(***************************************************************************)
(* _process_pdf_textbook after the page loop (src/rag.py, lines 89-101),   *)
(* step by step, on texts given directly                                   *)
(***************************************************************************)

\* n times the character c
Fill(n, c) == [i \in 1..n |-> c]

\* paragraphs a text may be made of: none at all (two blank lines in a row), one
\* under the minimum length, one over it, a page header, two that together reach
\* the target chunk length, one that is over it alone
ParaEmpty == <<>>

ParaShort == Fill(40, "s")

ParaLine == Fill(60, "m")

\* Page 7 of the lecture notes, then filling
ParaHeader == <<"P","a","g","e"," ","7"," ","o","f"," ","t","h","e"," ","l","e","c","t","u","r","e"," ","n","o","t","e","s">> \o Fill(40, "h")

ParaHalf == Fill(700, "a")

ParaRest == Fill(800, "b")

ParaLong == Fill(1600, "l")

ParagraphKinds == {ParaEmpty, ParaShort, ParaLine, ParaHeader, ParaHalf, ParaRest, ParaLong}

MaxParagraphs == 2

\* texts without a table of contents: up to MaxParagraphs paragraphs, blank lines between
ParagraphTexts == {Join(ps, BlankLine) : ps \in SeqsUpTo(ParagraphKinds, MaxParagraphs)}

\* 1.1 Valuation Basics
TitleBasics == <<"1",".","1"," ","V","a","l","u","a","t","i","o","n"," ","B","a","s","i","c","s">>

\* 2.1 Cash Flow Models
TitleModels == <<"2",".","1"," ","C","a","s","h"," ","F","l","o","w"," ","M","o","d","e","l","s">>

\* Contents
LeadContents == <<"C","o","n","t","e","n","t","s">>

\* Table of Contents
LeadTable == <<"T","a","b","l","e"," ","o","f"," ","C","o","n","t","e","n","t","s">>

\* Overview
LeadNone == <<"O","v","e","r","v","i","e","w">>

\* what may stand between two entries of a table of contents: nothing but the line
\* break, or a line of dots of about the least length of a section
NoGap == <<NL>>

GapLine(d) == <<NL>> \o Fill(MinSectionLen + d, ".") \o <<NL>>

Gaps == {NoGap} \cup {GapLine(d) : d \in {-1, 0, 1}}

\* the bodies of the last section: of about the least length, or long enough to be
\* split, of paragraphs of several lengths
EdgeBodies == {Fill(MinSectionLen + d, "e") : d \in {-1, 0, 1}}

BodyShapes ==
  {<<ParaLong, ParaRest>>, <<ParaRest, ParaLong>>, <<ParaLong, ParaLong>>,
   <<ParaHalf, ParaRest, ParaRest>>, <<ParaRest, ParaEmpty, ParaLong>>,
   <<ParaLong, ParaEmpty, ParaRest>>}

LongBodies == {Join(ps, BlankLine) : ps \in BodyShapes}

\* a table of contents of two entries, then the body
SectionText(gap, body) ==
  LeadContents \o <<NL>> \o TitleBasics \o gap \o TitleModels \o BlankLine \o body

SectionTexts ==
  {SectionText(gap, Fill(MinSectionLen + 1, "e")) : gap \in Gaps}
    \cup {SectionText(NoGap, body) : body \in EdgeBodies \cup LongBodies}

\* the entries of a table of contents: "Chapter i: Valuation Topics", or numbered,
\* every fourth of them too short for a title and every fifth too long
EntryStyles == {"chapter", "numbered"}

Entry(style, i) ==
  IF style = "chapter" THEN <<"C","h","a","p","t","e","r"," ">> \o Str(i) \o <<":"," ","V","a","l","u","a","t","i","o","n"," ","T","o","p","i","c","s">>
  ELSE IF i % 5 = 0 THEN Str(i) \o <<".","1"," ","A">> \o Fill(MaxTitleLen, "x")
  ELSE IF i % 4 = 0 THEN Str(i) \o <<".","1"," ","A","b">>
  ELSE Str(i) \o <<".","1"," ","C","a","s","h"," ","F","l","o","w"," ","M","o","d","e","l","s">>

RECURSIVE Entries(_, _)
Entries(style, n) ==
  IF n = 0 THEN <<>> ELSE Entries(style, n - 1) \o <<NL>> \o Entry(style, n)

\* one more entry than _extract_toc_sections keeps
MaxEntries == 21

EntryCounts == {0, 1, MaxEntries}

\* a lead-in line and the entries under it
Region(lead, style, n) == lead \o Entries(style, n)

\* 9.1 Terminal Value
TitleTerminal == <<"9",".","1"," ","T","e","r","m","i","n","a","l"," ","V","a","l","u","e">>

LeadIns == {LeadTable, LeadContents, LeadNone}

\* two regions, the second of one entry, then a body
TocText2(lead, style, n, later) ==
  Region(lead, style, n) \o BlankLine \o later \o <<NL>> \o TitleTerminal \o BlankLine \o Fill(MinSectionLen + 1, "v")

TocTexts ==
  {TocText2(lead, style, n, later) :
     lead \in LeadIns, style \in EntryStyles, n \in EntryCounts, later \in LeadIns}

Texts == ParagraphTexts \cup SectionTexts \cup TocTexts

\* a page of three paragraphs of 60, 40 and 70 characters
ParaFirst == Fill(60, "f")

ParaThird == Fill(70, "t")

PageThree ==
  [raises |-> FALSE, text |-> ParaFirst \o BlankLine \o ParaShort \o BlankLine \o ParaThird]

MaxBookPages == 2

\* the textbooks: up to MaxBookPages pages of the kinds above and of this one
Books == SeqsUpTo(PageKinds \cup {PageThree}, MaxBookPages)

\* FinancialRAG("book.pdf") for each of the textbooks
BookInit ==
  /\ textbook_path = "book.pdf"
  /\ pdf_file \in Books
  /\ rag_pc = "new"
  /\ page_num = 0
  /\ full_text = <<>>
  /\ pdf_chunks = <<>>
  /\ knowledge_chunks = <<>>
  /\ embedder = Model(0)
  /\ chunk_embeddings = <<>>
  /\ last_query = NoQuery

ChunkInit ==
  /\ doc_text \in Texts
  /\ chunk_pc = "text"
  /\ toc_pattern = 1
  /\ scanned = <<>>
  /\ raw_sections = <<>>
  /\ cleaned_sections = <<>>
  /\ text_chunks = <<>>

\* lines 89-91: if not full_text.strip(): return []
CheckText ==
  /\ chunk_pc = "text"
  /\ chunk_pc' = IF Strip(doc_text) = <<>> THEN "no_text" ELSE "toc"
  /\ UNCHANGED <<doc_text, toc_pattern, scanned, raw_sections, cleaned_sections, text_chunks>>
  /\ UNCHANGED <<rag_vars, retry_vars, eval_vars, save_vars>>

\* lines 118-130: the candidates found in the first match of lead-in k, s the place
\* of that match (0: no match)
LeadInSections(text, k, s) ==
  IF s = 0 THEN <<>>
  ELSE FoundSections(TocText(text, s, MatchAt(TocPatterns[k], text, s)), 1)

\* a loop that goes on to the next lead-in whatever this one gave
NextPatternAlways(found, k) == k + 1

\* lines 132-133: if sections: break
NextPattern(found, k) == IF found # <<>> THEN Len(TocPatterns) + 1 ELSE k + 1

\* what one turn of the loop over toc_patterns leaves, found the candidates it found
ScanFound(found) ==
  /\ raw_sections' = raw_sections \o found
  /\ toc_pattern' = NextPattern(found, toc_pattern)
  /\ scanned' = Append(scanned, [lead_in |-> toc_pattern, found |-> found])

\* _extract_toc_sections, lines 117-133: one turn of the loop over toc_patterns
ScanTocPattern ==
  /\ chunk_pc = "toc"
  /\ toc_pattern <= Len(TocPatterns)
  /\ ScanFound(LeadInSections(doc_text, toc_pattern,
                              SearchFrom(TocPatterns[toc_pattern], doc_text, 1)))
  /\ UNCHANGED <<doc_text, chunk_pc, cleaned_sections, text_chunks>>
  /\ UNCHANGED <<rag_vars, retry_vars, eval_vars, save_vars>>

\* _extract_toc_sections, lines 135-141: clean and filter, and return
CleanSections ==
  /\ chunk_pc = "toc"
  /\ toc_pattern > Len(TocPatterns)
  /\ cleaned_sections' = SelectSeq(FirstSections(raw_sections), ReasonableLength)
  /\ chunk_pc' = "chunk"
  /\ UNCHANGED <<doc_text, toc_pattern, scanned, raw_sections, text_chunks>>
  /\ UNCHANGED <<rag_vars, retry_vars, eval_vars, save_vars>>

\* lines 96-98: section mode
CreateSectionChunks ==
  /\ chunk_pc = "chunk"
  /\ cleaned_sections # <<>>
  /\ text_chunks' = _create_section_chunks(doc_text, cleaned_sections)
  /\ chunk_pc' = "section_mode"
  /\ UNCHANGED <<doc_text, toc_pattern, scanned, raw_sections, cleaned_sections>>
  /\ UNCHANGED <<rag_vars, retry_vars, eval_vars, save_vars>>

\* lines 99-101: paragraph mode
CreateParagraphChunks ==
  /\ chunk_pc = "chunk"
  /\ cleaned_sections = <<>>
  /\ text_chunks' = _create_paragraph_chunks(doc_text)
  /\ chunk_pc' = "paragraph_mode"
  /\ UNCHANGED <<doc_text, toc_pattern, scanned, raw_sections, cleaned_sections>>
  /\ UNCHANGED <<rag_vars, retry_vars, eval_vars, save_vars>>


(***************************************************************************)
(* main after the evaluation, and save_results (src/main.py, lines 96-106, *)
(* src/results.py), one block of the report per step                       *)
(***************************************************************************)

\* a / b: ZeroDivisionError when b is 0, else the quotient as the pair <<a, b>>
Divide(a, b) == [raised |-> b = 0, value |-> IF b = 0 THEN <<0, 1>> ELSE <<a, b>>]

\* f.write of one line of the report, shown the numbers formatted into it
Line(name, shown) == [line |-> name, shown |-> shown]

NoFile == [written |-> FALSE, rows |-> <<>>]

\* save_results is not called
SaveIdle ==
  /\ save_pc = "off"
  /\ csv_file = NoFile
  /\ report_file = <<>>
  /\ save_error = "none"

\* main is to call save_results once evaluate_on_dataset has returned
SaveInit ==
  /\ save_pc = "idle"
  /\ csv_file = NoFile
  /\ report_file = <<>>
  /\ save_error = "none"

\* the statement at hand raised: the with block closes the report as it is, and
\* the error leaves save_results and main
Raise(error) ==
  /\ save_pc' = "raised"
  /\ save_error' = error

HasRag(r) == r.rag_found

HasRagCorrect(r) == r.rag_found /\ r.is_correct

NoRagCorrect(r) == ~r.rag_found /\ r.is_correct

Failed(r) == ~r.is_correct

\* c.get('source') != 'pdf_valuation': a rule has no source
NotFromPdf(chunk) == "source" \notin DOMAIN chunk \/ chunk.source # "pdf_valuation"

\* the keys of by_type_accuracy, in the order evaluate_on_dataset inserts them
TypeKeys(by_type_accuracy) ==
  LET IsKey(t) == t \in DOMAIN by_type_accuracy
  IN SelectSeq(<<"basic_tactical", "assumption_tactical", "conceptual">>, IsKey)

\* main, line 105, and save_results, lines 18-34: the DataFrame and to_csv
SaveCsv ==
  /\ save_pc = "idle"
  /\ eval_pc = "done"
  /\ csv_file' = [written |-> TRUE, rows |-> benchmark.detailed_results]
  /\ save_pc' = "header"
  /\ UNCHANGED <<report_file, save_error>>
  /\ UNCHANGED <<rag_vars, retry_vars, eval_vars, chunk_vars>>

\* lines 37-44: the report is opened and its heading written
ReportHeader ==
  /\ save_pc = "header"
  /\ report_file' = <<Line("Dataset", <<benchmark.total_questions>>)>>
  /\ save_pc' = "timing"
  /\ UNCHANGED <<csv_file, save_error>>
  /\ UNCHANGED <<rag_vars, retry_vars, eval_vars, chunk_vars>>

\* lines 50-56, after the average per question was computed
TimingLines(average) ==
  IF average.raised
    THEN /\ report_file' = Append(report_file, Line("Execution Time", <<>>))
         /\ Raise("ZeroDivisionError")
    ELSE /\ report_file' = report_file \o
               <<Line("Execution Time", <<>>), Line("Average per question", <<>>),
                 Line("Parallel Workers", <<max_workers>>),
                 Line("Estimated sequential time", <<>>), Line("Parallel speedup", <<>>)>>
         /\ save_pc' = "overall"
         /\ UNCHANGED save_error

\* lines 47-56: if hasattr(results, 'execution_time')
ReportTiming ==
  /\ save_pc = "timing"
  /\ IF benchmark.timed
       THEN TimingLines(Divide(1, benchmark.total_questions))
       ELSE /\ save_pc' = "overall"
            /\ UNCHANGED <<report_file, save_error>>
  /\ UNCHANGED csv_file
  /\ UNCHANGED <<rag_vars, retry_vars, eval_vars, chunk_vars>>

\* lines 70-73: one line per key of by_type_accuracy
TypeLines(rs, keys) ==
  [i \in DOMAIN keys |->
     Line(keys[i], <<Len(SelectSeq(OfType(rs, keys[i]), IsCorrect)), Len(OfType(rs, keys[i]))>>)]

\* lines 58-73: overall results and breakdown by question type
ReportOverall ==
  /\ save_pc = "overall"
  /\ report_file' = report_file \o
        <<Line("Overall Accuracy", benchmark.overall_accuracy
                                     \o <<benchmark.total_correct, benchmark.total_questions>>)>>
        \o TypeLines(benchmark.detailed_results, TypeKeys(benchmark.by_type_accuracy))
  /\ save_pc' = "sources"
  /\ UNCHANGED <<csv_file, save_error>>
  /\ UNCHANGED <<rag_vars, retry_vars, eval_vars, chunk_vars>>

\* lines 85-92, hardcoded_chunks of the total_chunks chunks not from the PDF
SourceLines(total_chunks, hardcoded_chunks) ==
  <<Line("Hardcoded financial rules", <<hardcoded_chunks>>)>>
  \o (IF total_chunks - hardcoded_chunks > 0
        THEN <<Line("PDF textbook content", <<total_chunks - hardcoded_chunks>>),
               Line("PDF path", <<>>)>>
        ELSE <<Line("PDF textbook", <<>>)>>)
  \o <<Line("Total knowledge chunks", <<total_chunks>>)>>

\* lines 75-92: knowledge source summary
ReportSources ==
  /\ save_pc = "sources"
  /\ report_file' = report_file \o
        SourceLines(Len(knowledge_chunks), Len(SelectSeq(knowledge_chunks, NotFromPdf)))
  /\ save_pc' = "rag_usage"
  /\ UNCHANGED <<csv_file, save_error>>
  /\ UNCHANGED <<rag_vars, retry_vars, eval_vars, chunk_vars>>

\* lines 95-96, after rag_percentage was computed
UsageLine(total_with_rag, rag_percentage) ==
  IF rag_percentage.raised
    THEN /\ Raise("ZeroDivisionError")
         /\ UNCHANGED report_file
    ELSE /\ report_file' = Append(report_file,
               Line("Questions with RAG snippets", <<total_with_rag>> \o rag_percentage.value))
         /\ save_pc' = "rag_accuracy"
         /\ UNCHANGED save_error

\* lines 94-96: total_with_rag / results.total_questions * 100
ReportRagUsage ==
  /\ save_pc = "rag_usage"
  /\ UsageLine(Len(SelectSeq(benchmark.detailed_results, HasRag)),
               Divide(Len(SelectSeq(benchmark.detailed_results, HasRag)),
                      benchmark.total_questions))
  /\ UNCHANGED csv_file
  /\ UNCHANGED <<rag_vars, retry_vars, eval_vars, chunk_vars>>

\* lines 98-109, the two accuracies, each written when there is something to divide by
AccuracyLines(rs, total_with_rag, total_without_rag) ==
  (IF total_with_rag > 0
     THEN <<Line("Accuracy with RAG", <<Len(SelectSeq(rs, HasRagCorrect)), total_with_rag>>)>>
     ELSE <<>>)
  \o (IF total_without_rag > 0
        THEN <<Line("Accuracy without RAG",
                    <<Len(SelectSeq(rs, NoRagCorrect)), total_without_rag>>)>>
        ELSE <<>>)

\* lines 98-109: RAG accuracy analysis
ReportRagAccuracy ==
  /\ save_pc = "rag_accuracy"
  /\ report_file' = report_file \o
        AccuracyLines(benchmark.detailed_results,
                      Len(SelectSeq(benchmark.detailed_results, HasRag)),
                      benchmark.total_questions
                        - Len(SelectSeq(benchmark.detailed_results, HasRag)))
  /\ save_pc' = "distribution"
  /\ UNCHANGED <<csv_file, save_error>>
  /\ UNCHANGED <<rag_vars, retry_vars, eval_vars, chunk_vars>>

\* lines 115-118: count / results.total_questions * 100 for each of the three types
DistributionLines(rs, total_questions) ==
  [i \in 1..3 |->
     Line(<<"basic_tactical", "assumption_tactical", "conceptual">>[i],
          <<Len(OfType(rs, <<"basic_tactical", "assumption_tactical", "conceptual">>[i])),
            total_questions>>)]

\* lines 111-118: question type distribution
ReportDistribution ==
  /\ save_pc = "distribution"
  /\ IF Divide(0, benchmark.total_questions).raised
       THEN /\ Raise("ZeroDivisionError")
            /\ UNCHANGED report_file
       ELSE /\ report_file' = report_file \o
                  DistributionLines(benchmark.detailed_results, benchmark.total_questions)
            /\ save_pc' = "failures"
            /\ UNCHANGED save_error
  /\ UNCHANGED csv_file
  /\ UNCHANGED <<rag_vars, retry_vars, eval_vars, chunk_vars>>

\* lines 120-135: failed cases analysis, and the report is closed
ReportFailures ==
  /\ save_pc = "failures"
  /\ report_file' = Append(report_file,
        Line("FAILED CASES ANALYSIS", <<Len(SelectSeq(benchmark.detailed_results, Failed))>>))
  /\ save_pc' = "console"
  /\ UNCHANGED <<csv_file, save_error>>
  /\ UNCHANGED <<rag_vars, retry_vars, eval_vars, chunk_vars>>

\* lines 137-170: console output; save_results returns and main prints Complete
ConsoleOutput ==
  /\ save_pc = "console"
  /\ save_pc' = "returned"
  /\ UNCHANGED <<csv_file, report_file, save_error>>
  /\ UNCHANGED <<rag_vars, retry_vars, eval_vars, chunk_vars>>


(***************************************************************************)
(* The specifications                                                      *)
(***************************************************************************)

\* no FinancialRAG is under construction
RagIdle ==
  /\ textbook_path = "None"
  /\ pdf_file = <<>>
  /\ rag_pc = "off"
  /\ page_num = 0
  /\ full_text = <<>>
  /\ pdf_chunks = <<>>
  /\ knowledge_chunks = <<>>
  /\ embedder = <<>>
  /\ chunk_embeddings = <<>>
  /\ last_query = NoQuery

\* no text is being chunked
ChunkIdle ==
  /\ doc_text = <<>>
  /\ chunk_pc = "off"
  /\ toc_pattern = 1
  /\ scanned = <<>>
  /\ raw_sections = <<>>
  /\ cleaned_sections = <<>>
  /\ text_chunks = <<>>

\* the knowledge store: its construction for every path and document, and its queries
Init == RagInit /\ RetryIdle /\ EvalIdle /\ ChunkIdle /\ SaveIdle

Next ==
  \/ LoadModel
  \/ OpenPdf
  \/ ReadPage
  \/ EndOfPages
  \/ ChunkPdf
  \/ ExtendChunks
  \/ EmbedChunks
  \/ Query
  \/ DropResult

Spec == Init /\ [][Next]_vars

\* one call of retry_with_exponential_backoff, step by step
InitRetry == RagIdle /\ RetryInit /\ EvalIdle /\ ChunkIdle /\ SaveIdle

NextRetry ==
  \/ CallFunc
  \/ Backoff
  \/ FallThrough

SpecRetry == InitRetry /\ [][NextRetry]_vars

\* an agent built on a one-page textbook with one pretrained model, then one call of evaluate_on_dataset
InitEval ==
  /\ RagInit
  /\ textbook_path = "book.pdf"
  /\ pdf_file = <<PageProse>>
  /\ embedder = Model(0)
  /\ RetryIdle
  /\ EvalInit
  /\ ChunkIdle
  /\ SaveIdle

NextEval ==
  \/ LoadModel
  \/ OpenPdf
  \/ ReadPage
  \/ EndOfPages
  \/ ChunkPdf
  \/ ExtendChunks
  \/ EmbedChunks
  \/ LoadDataset
  \/ Submit
  \/ AllSubmitted
  \/ \E i \in DOMAIN tasks : StartQuestion(i)
  \/ \E i \in DOMAIN tasks : CallModel(i)
  \/ \E i \in DOMAIN tasks : EvaluateAnswer(i)
  \/ \E i \in DOMAIN tasks : Collect(i)
  \/ Finish

SpecEval == InitEval /\ [][NextEval]_vars

\* the chunking of one text, step by step: the segmenter, then one of the chunkers
InitChunk == RagIdle /\ RetryIdle /\ EvalIdle /\ ChunkInit /\ SaveIdle

NextChunk ==
  \/ CheckText
  \/ ScanTocPattern
  \/ CleanSections
  \/ CreateSectionChunks
  \/ CreateParagraphChunks

SpecChunk == InitChunk /\ [][NextChunk]_vars

\* the construction of the knowledge store on each of the textbooks
InitBook == BookInit /\ RetryIdle /\ EvalIdle /\ ChunkIdle /\ SaveIdle

NextBook ==
  \/ LoadModel
  \/ OpenPdf
  \/ ReadPage
  \/ EndOfPages
  \/ ChunkPdf
  \/ ExtendChunks
  \/ EmbedChunks

SpecBook == InitBook /\ [][NextBook]_vars

\* main: the agent, one call of evaluate_on_dataset, then save_results
InitSave ==
  /\ RagInit
  /\ textbook_path = "book.pdf"
  /\ pdf_file = <<PageProse>>
  /\ embedder = Model(0)
  /\ RetryIdle
  /\ EvalInit
  /\ ChunkIdle
  /\ SaveInit

NextSave ==
  \/ NextEval
  \/ SaveCsv
  \/ ReportHeader
  \/ ReportTiming
  \/ ReportOverall
  \/ ReportSources
  \/ ReportRagUsage
  \/ ReportRagAccuracy
  \/ ReportDistribution
  \/ ReportFailures
  \/ ConsoleOutput

SpecSave == InitSave /\ [][NextSave]_vars


(***************************************************************************)
(* Properties of the knowledge store (checked under Spec)                  *)
(***************************************************************************)

\* the similarity of a question to chunk idx, from the chunk's text
SimilarityTo(question, idx) ==
  cosine_similarity(embedder[EmbedKey(question)],
                    embedder[EmbedKey(knowledge_chunks[idx].text)])

\* the chunks with a similarity above the floor
AboveFloorSet(question) ==
  {idx \in DOMAIN knowledge_chunks : SimilarityTo(question, idx) > SimilarityFloor}

\* C1: for every top_k >= 0 and every question, query returns at most top_k chunks,
\* each with a similarity strictly above 0.3 to the question.
C1_AtMostTopK ==
  (last_query.called /\ last_query.top_k >= 0) =>
    /\ Len(last_query.result) <= last_query.top_k
    /\ \A i \in DOMAIN last_query.result :
         SimilarityTo(last_query.question, last_query.result[i]) > SimilarityFloor

\* C2: once the constructor has returned, chunk_embeddings has one row per entry of
\* knowledge_chunks, and row i is the embedding of the text of knowledge_chunks[i].
C2_RowPerChunk ==
  rag_pc = "ready" =>
    /\ Len(chunk_embeddings) = Len(knowledge_chunks)
    /\ \A i \in DOMAIN knowledge_chunks :
         chunk_embeddings[i] = embedder[EmbedKey(knowledge_chunks[i].text)]

\* C2, reached: a finished store that holds section chunks of a document after the rules
C2_Witness ==
  /\ rag_pc = "ready"
  /\ Len(knowledge_chunks) > 5
  /\ \E i \in DOMAIN knowledge_chunks :
       "source" \in DOMAIN knowledge_chunks[i] /\ knowledge_chunks[i].topic = "textbook_section"

\* C3: what query returns is in non-increasing order of similarity, without repeats and
\* above the floor; no chunk left out is strictly more similar than a returned one; and
\* for top_k >= 1 it is as many as the floor and top_k allow.
C3_BestFirst ==
  last_query.called =>
    LET result == last_query.result
        question == last_query.question
    IN /\ \A i, j \in DOMAIN result :
            i < j => /\ SimilarityTo(question, result[i]) >= SimilarityTo(question, result[j])
                     /\ result[i] # result[j]
       /\ \A i \in DOMAIN result : result[i] \in AboveFloorSet(question)
       /\ \A idx \in DOMAIN knowledge_chunks \ Range(result) :
            \A i \in DOMAIN result :
              SimilarityTo(question, idx) <= SimilarityTo(question, result[i])
       /\ last_query.top_k >= 1 =>
            Len(result) = Min(last_query.top_k, Cardinality(AboveFloorSet(question)))

\* C3, reached: a query that returned chunks of different similarity and left out a
\* chunk that is above the floor
C3_Witness ==
  /\ last_query.called
  /\ last_query.top_k >= 1
  /\ \E i, j \in DOMAIN last_query.result :
       SimilarityTo(last_query.question, last_query.result[i])
         > SimilarityTo(last_query.question, last_query.result[j])
  /\ AboveFloorSet(last_query.question) \ Range(last_query.result) # {}

\* C4: with no textbook path, or one that does not exist, the store holds exactly the
\* 5 hardcoded rules, and none of them is tagged source = 'pdf_valuation'.
C4_RulesOnly ==
  (textbook_path \in {"None", "", "missing.pdf"} /\ rag_pc \in {"embed", "ready"}) =>
    /\ Len(knowledge_chunks) = 5
    /\ ChunkTexts(knowledge_chunks) = <<RuleText1, RuleText2, RuleText3, RuleText4, RuleText5>>
    /\ \A i \in DOMAIN knowledge_chunks :
         \/ "source" \notin DOMAIN knowledge_chunks[i]
         \/ knowledge_chunks[i].source # "pdf_valuation"

\* C4, reached: a finished store built for a path that does not exist
C4_Witness ==
  /\ textbook_path = "missing.pdf"
  /\ rag_pc = "ready"
  /\ Len(chunk_embeddings) = 5

\* the file cannot be opened or parsed, or no page gives anything but white space
Unreadable ==
  \/ textbook_path \in {"locked.pdf", "corrupt.pdf"}
  \/ /\ textbook_path = "book.pdf"
     /\ \A i \in DOMAIN pdf_file :
          pdf_file[i].raises \/ \A k \in DOMAIN pdf_file[i].text : IsSpace(pdf_file[i].text[k])

\* C5: for such a document _process_pdf_textbook raises nothing and returns no chunk,
\* so the store ends with the hardcoded rules only.
C5_NothingFromUnreadable ==
  Unreadable =>
    /\ rag_pc # "raised"
    /\ rag_pc = "extend" => pdf_chunks = <<>>
    /\ rag_pc \in {"embed", "ready"} =>
         /\ Len(knowledge_chunks) = 5
         /\ \A i \in DOMAIN knowledge_chunks : "source" \notin DOMAIN knowledge_chunks[i]

\* C5, reached: a finished store for a document whose first page fails and whose
\* second is blank
C5_Witness ==
  /\ textbook_path = "book.pdf"
  /\ Len(pdf_file) = 2
  /\ pdf_file[1].raises
  /\ ~pdf_file[2].raises
  /\ Unreadable
  /\ rag_pc = "ready"

\* a page that extracted and has more than white space
Kept(page) == ~page.raises /\ \E k \in DOMAIN page.text : ~IsSpace(page.text[k])

\* the texts of the kept pages among the first n, one after the other
RECURSIVE PlainText(_, _)
PlainText(pages, n) ==
  IF n = 0 THEN <<>>
  ELSE PlainText(pages, n - 1) \o (IF Kept(pages[n]) THEN pages[n].text ELSE <<>>)

\* the same, each text after a line "--- Page n ---" with n the place of its page
RECURSIVE MarkedText(_, _)
MarkedText(pages, n) ==
  IF n = 0 THEN <<>>
  ELSE MarkedText(pages, n - 1)
         \o (IF Kept(pages[n])
               THEN <<"\n", "-", "-", "-", " ", "P", "a", "g", "e", " ">> \o Str(n)
                      \o <<" ", "-", "-", "-", "\n">> \o pages[n].text
               ELSE <<>>)

\* C6 as stated: when the page loop is over, the extracted text is the concatenation,
\* in page order, of the texts of the pages that extracted with more than white space.
C6_PlainConcatenation ==
  rag_pc = "chunk" => full_text = PlainText(pdf_file, Len(pdf_file))

\* C6, amended: during and after the page loop the extracted text is the concatenation,
\* in page order, of the texts of the kept pages among those dealt with, each preceded
\* by its page marker; a page that raises does not stop the loop, which ends only
\* when every page was dealt with.
C6_MarkedConcatenation ==
  rag_pc \in {"pages", "chunk"} =>
    /\ page_num <= Len(pdf_file)
    /\ full_text = MarkedText(pdf_file, page_num)
    /\ rag_pc = "chunk" => page_num = Len(pdf_file)

\* C6, reached: the loop is over for a document whose first page raised and whose
\* second page gave text
C6_Witness ==
  /\ rag_pc = "chunk"
  /\ Len(pdf_file) = 2
  /\ pdf_file[1].raises
  /\ Kept(pdf_file[2])
  /\ full_text # <<>>


(***************************************************************************)
(* Properties of the retry loop (checked under SpecRetry)                  *)
(***************************************************************************)

IsCall(e) == e.event = "call"

Calls == SelectSeq(trace, IsCall)

RetryOver == retry_pc \in {"returned", "raised"}

\* C7: an error of func that is not a rate-limit error is the last thing that happens:
\* no call and no sleep follows it, and it is what the caller gets, at any attempt.
C7_OtherErrorsPropagate ==
  \A i \in DOMAIN trace :
    (trace[i].event = "call" /\ trace[i].outcome.kind = "error") =>
      /\ i = Len(trace)
      /\ retry_pc = "raised"
      /\ retry_value = trace[i].outcome

\* C7, reached: func raised another error on its third call, after two rate limits
C7_Witness ==
  /\ Len(Calls) = 3
  /\ trace[Len(trace)].event = "call"
  /\ trace[Len(trace)].outcome.kind = "error"
  /\ retry_pc = "raised"

\* C8: for max_retries >= 1 func is called at most max_retries times; the first call
\* that succeeds is the last event and its value is returned; when all max_retries
\* calls hit the rate limit the last of these errors is raised and no sleep follows
\* it; and the loop always ends: it is never stuck, and never runs longer than
\* max_retries calls with a sleep between each two.
C8_BoundedRetries ==
  max_retries >= 1 =>
    /\ Len(Calls) <= max_retries
    /\ Len(trace) <= 2 * max_retries - 1
    /\ RetryOver \/ ENABLED NextRetry
    /\ \A i \in DOMAIN trace :
         (trace[i].event = "call" /\ trace[i].outcome.kind = "ok") =>
           /\ i = Len(trace)
           /\ retry_pc = "returned"
           /\ retry_value = trace[i].outcome
    /\ retry_pc = "returned" =>
         /\ trace # <<>>
         /\ trace[Len(trace)].event = "call"
         /\ trace[Len(trace)].outcome.kind = "ok"
    /\ (Len(Calls) = max_retries /\ \A i \in DOMAIN Calls : Calls[i].outcome.kind = "rate_limit") =>
         /\ retry_pc = "raised"
         /\ trace[Len(trace)].event = "call"
         /\ retry_value = trace[Len(trace)].outcome
    /\ (retry_pc = "raised" /\ retry_value.kind = "rate_limit") =>
         /\ Len(Calls) = max_retries
         /\ retry_value.call = max_retries

\* C8, reached: three calls were allowed, all three hit the rate limit, and the error
\* of the third was raised
C8_Witness ==
  /\ max_retries = 3
  /\ Len(Calls) = 3
  /\ Len(trace) = 5
  /\ retry_pc = "raised"
  /\ retry_value = Outcome("rate_limit", 3)


(***************************************************************************)
(* Properties of evaluate_on_dataset (checked under SpecEval)              *)
(***************************************************************************)

\* the entries of detailed_results for question i
ResultsOf(i) ==
  {k \in DOMAIN benchmark.detailed_results :
     benchmark.detailed_results[k].question_id = question_data[i].question_id}

C10_StoreFrozen ==
  [][/\ rag_pc = "ready" =>
          /\ rag_pc' = "ready"
          /\ knowledge_chunks' = knowledge_chunks
          /\ chunk_embeddings' = chunk_embeddings
     /\ eval_pc # "idle" => rag_pc = "ready"
     /\ eval_pc' # "idle" => rag_pc' = "ready"]_vars

\* C10, reached: two worker threads are past their retrieval at the same time
C10_Witness ==
  /\ rag_pc = "ready"
  /\ Len(tasks) = 2
  /\ tasks[1].stage = "retrieved"
  /\ tasks[2].stage = "retrieved"
  /\ tasks[1].rag_found


(***************************************************************************)
(* Properties of the chunking of a textbook (checked under SpecBook)       *)
(***************************************************************************)

\* what section mode gives for a text with titles, paragraph mode for one without
ModeOutput(text, titles) ==
  IF titles # <<>> THEN _create_section_chunks(text, titles)
  ELSE _create_paragraph_chunks(text)

ModeTopic(titles) == IF titles # <<>> THEN "textbook_section" ELSE "textbook_content"

\* chunks all of one mode: the topic of that mode, and the source of the textbook
OfMode(some_chunks, titles) ==
  \A i \in DOMAIN some_chunks :
    /\ some_chunks[i].topic = ModeTopic(titles)
    /\ some_chunks[i].source = "pdf_valuation"

\* the chunks of the store that come after the hardcoded rules
AfterRules(store) == SubSeq(store, Len(_get_financial_rules) + 1, Len(store))

\* C11: the chunks _process_pdf_textbook returns for a document are exactly the
\* output of one mode, section mode if and only if the segmenter found a title in
\* the extracted text, paragraph mode otherwise, also when that output is empty;
\* so the chunks of the store that come from the document all carry the topic of
\* that one mode and the source pdf_valuation.
C11_OneModePerDocument ==
  /\ rag_pc = "extend" =>
       /\ pdf_chunks = ModeOutput(MarkedText(pdf_file, Len(pdf_file)),
                                  _extract_toc_sections(MarkedText(pdf_file, Len(pdf_file))))
       /\ OfMode(pdf_chunks, _extract_toc_sections(MarkedText(pdf_file, Len(pdf_file))))
  /\ rag_pc \in {"embed", "ready"} =>
       /\ AfterRules(knowledge_chunks)
            = ModeOutput(MarkedText(pdf_file, Len(pdf_file)),
                         _extract_toc_sections(MarkedText(pdf_file, Len(pdf_file))))
       /\ OfMode(AfterRules(knowledge_chunks),
                 _extract_toc_sections(MarkedText(pdf_file, Len(pdf_file))))

\* C11, reached: a finished store on a textbook of two pages, a table of contents on
\* the first and prose on the second, whose chunks after the rules are section chunks
C11_Witness ==
  /\ rag_pc = "ready"
  /\ pdf_file = <<PageToc, PageProse>>
  /\ Len(knowledge_chunks) > Len(_get_financial_rules)
  /\ \A i \in DOMAIN AfterRules(knowledge_chunks) :
       AfterRules(knowledge_chunks)[i].topic = "textbook_section"

\* C11, reached as well: a finished store on a page of prose, in paragraph mode
C11_ParagraphModeReached ==
  /\ rag_pc = "ready"
  /\ pdf_file = <<PageProse>>
  /\ Len(knowledge_chunks) > Len(_get_financial_rules)
  /\ \A i \in DOMAIN AfterRules(knowledge_chunks) :
       AfterRules(knowledge_chunks)[i].topic = "textbook_content"


(***************************************************************************)
(* Properties of the two chunkers and of the segmenter (under SpecChunk)   *)
(***************************************************************************)

\* the chunks emitted for one section title
ChunksTitled(some_chunks, section_title) ==
  LET OfTitle(c) == c.section = section_title IN SelectSeq(some_chunks, OfTitle)

\* the texts of chunks, each without the title and the blank line put before it
BodiesOf(some_chunks, section_title) ==
  [i \in DOMAIN some_chunks |->
     SubSeq(some_chunks[i].text, Len(section_title) + Len(BlankLine) + 1,
            Len(some_chunks[i].text))]

\* a section large enough to be split comes back whole from its chunks
SplitKept(some_chunks, section_title, m) ==
  (m.found /\ Len(m.content) > SectionSplitLen) =>
     Join(BodiesOf(ChunksTitled(some_chunks, section_title), section_title), BlankLine)
       = m.content

\* C12: in section mode, for every section whose captured content is over 2000
\* characters, the texts of its chunks, each without its title prefix, joined by
\* blank lines, are the captured content, character for character.
C12_SplitKeepsContent ==
  chunk_pc = "section_mode" =>
    \A i \in DOMAIN cleaned_sections :
      SplitKept(text_chunks, cleaned_sections[i],
                SectionMatches(doc_text, cleaned_sections, i))

\* a paragraph the chunker is to leave out: short, or a page header
Unwanted(para) ==
  Len(para) < MinParagraphLen \/ Find(Prefix(para, HeaderScanLen), PageWord, 1) # 0

NoUnwanted(paragraphs) == \A j \in DOMAIN paragraphs : ~Unwanted(paragraphs[j])

\* C13: in paragraph mode no chunk contains a paragraph of fewer than 50
\* characters or one with 'Page' in its first 20 characters, and no chunk text
\* has 'Page' in its first 20 characters.
C13_NoSkippedParagraph ==
  chunk_pc = "paragraph_mode" =>
    \A i \in DOMAIN text_chunks :
      /\ NoUnwanted(Split(text_chunks[i].text, BlankLine))
      /\ Find(Prefix(text_chunks[i].text, HeaderScanLen), PageWord, 1) = 0

\* C13, reached: a page header followed by a paragraph of 60 characters has gone
\* through paragraph mode, and the one chunk is the paragraph alone
C13_Witness ==
  /\ chunk_pc = "paragraph_mode"
  /\ doc_text = Join(<<ParaHeader, ParaLine>>, BlankLine)
  /\ Len(text_chunks) = 1
  /\ text_chunks[1].text = ParaLine

\* C13, reached as well: a short paragraph before a long one is left out
C13_ShortLeftOut ==
  /\ chunk_pc = "paragraph_mode"
  /\ doc_text = Join(<<ParaShort, ParaLong>>, BlankLine)
  /\ Len(text_chunks) = 1
  /\ text_chunks[1].text = ParaLong

(***************************************************************************)
(* The worked example of the chunking, end to end (under SpecBook)         *)
(***************************************************************************)

\* C14: a textbook of one page with no table of contents and three paragraphs
\* of 60, 40 and 70 characters separated by blank lines gives exactly one
\* chunk, the first and the third paragraph joined by a blank line.
C14_FirstAndThird ==
  (rag_pc = "extend" /\ pdf_file = <<PageThree>>) =>
     /\ Len(pdf_chunks) = 1
     /\ pdf_chunks[1].text = ParaFirst \o BlankLine \o ParaThird

(***************************************************************************)
(* Properties of the segmenter, _extract_toc_sections (under SpecChunk)    *)
(***************************************************************************)

\* the segmenter has returned
Segmented == chunk_pc \in {"chunk", "section_mode", "paragraph_mode"}

\* the first n chapter entries, as many as the cut keeps, are among the titles
ChaptersKept(titles, n) ==
  \A i \in 1..Min(n, MaxTocSections) :
    \E j \in DOMAIN titles : titles[j] = Entry("chapter", i)

\* C15: for a text with a table-of-contents lead-in followed by entries
\* 'Chapter <number>: <title>' of 11 to 99 characters, _extract_toc_sections
\* returns those chapter headings as titles.
C15_ChapterHeadings ==
  Segmented =>
    \A lead \in {LeadTable, LeadContents}, n \in EntryCounts \ {0}, later \in LeadIns :
      doc_text = TocText2(lead, "chapter", n, later) => ChaptersKept(cleaned_sections, n)

\* the candidates the region of lead-in k yields in a text, none if it does not match
Candidates(text, k) ==
  LeadInSections(text, k, SearchFrom(TocPatterns[k], text, 1))

\* C16: the lead-ins are tried in order, 'table of contents' then 'contents'; a
\* lead-in is scanned only if every one scanned before it gave no candidate,
\* the candidates used are those of the last lead-in scanned and no others, and
\* when the loop is over with no candidate every lead-in has been scanned and
\* the result is empty.
C16_FirstYieldingLeadIn ==
  chunk_pc \in {"toc", "chunk"} =>
    /\ \A j \in DOMAIN scanned : scanned[j].lead_in = j
    /\ \A j \in 1..(Len(scanned) - 1) : scanned[j].found = <<>>
    /\ raw_sections = IF scanned = <<>> THEN <<>> ELSE scanned[Len(scanned)].found
    /\ (toc_pattern > Len(TocPatterns) /\ raw_sections = <<>>) => Len(scanned) = Len(TocPatterns)
    /\ (chunk_pc = "chunk" /\ raw_sections = <<>>) => cleaned_sections = <<>>

\* C16, reached: the segmenter has returned after scanning 'table of contents'
\* alone, in a text where 'contents' has a region with other candidates
C16_Witness ==
  /\ chunk_pc = "chunk"
  /\ Len(scanned) = 1
  /\ cleaned_sections # <<>>
  /\ Candidates(doc_text, 2) # <<>>
  /\ Candidates(doc_text, 2) # raw_sections

\* C16, reached as well: a lead-in is there, neither region yields a candidate,
\* and the segmenter has returned no title
C16_NoCandidate ==
  /\ chunk_pc = "chunk"
  /\ Len(scanned) = 2
  /\ SearchFrom(TocPatterns[2], doc_text, 1) # 0
  /\ cleaned_sections = <<>>

\* the candidates of reasonable length among the first n, in order
RECURSIVE KeptTitles(_, _)
KeptTitles(candidates, n) ==
  IF n = 0 THEN <<>>
  ELSE KeptTitles(candidates, n - 1)
         \o (IF Len(candidates[n]) > 10 /\ Len(candidates[n]) < 100
               THEN <<candidates[n]>> ELSE <<>>)

\* C17: _extract_toc_sections returns at most 20 titles, each of a length
\* strictly between 10 and 100 characters, and they are exactly the candidates
\* within that length among the first 20 raw candidates, in their order.
C17_FirstTwentyReasonable ==
  Segmented =>
    /\ Len(cleaned_sections) <= 20
    /\ \A i \in DOMAIN cleaned_sections :
         Len(cleaned_sections[i]) > 10 /\ Len(cleaned_sections[i]) < 100
    /\ cleaned_sections = KeptTitles(raw_sections, Min(Len(raw_sections), 20))

\* C17, reached: more than 20 raw candidates, among the first 20 some too short
\* and some too long, and a candidate of reasonable length after the 20th
C17_Witness ==
  /\ Segmented
  /\ Len(raw_sections) > 20
  /\ \E i \in 1..20 : Len(raw_sections[i]) <= 10
  /\ \E i \in 1..20 : Len(raw_sections[i]) >= 100
  /\ \E i \in 21..Len(raw_sections) :
       Len(raw_sections[i]) > 10 /\ Len(raw_sections[i]) < 100
  /\ cleaned_sections # <<>>

(***************************************************************************)
(* Rate limits in the evaluation (under SpecEval)                          *)
(***************************************************************************)

\* the answering call of question i failed with a rate-limit error that
\* retry_with_exponential_backoff raised after its last attempt
RateLimitExhausted(i) ==
  tasks[i].failure = "answer" /\ tasks[i].response.answer = ErrorAnswer("rate_limit")

\* C18: a question whose answering call keeps failing with a rate-limit error
\* until the retries are exhausted is skipped: the run returns no
\* EvaluationResult for it, so total_questions does not count it.
C18_RateLimitedSkipped ==
  eval_pc = "done" =>
    \A i \in DOMAIN question_data :
      RateLimitExhausted(i) =>
        /\ ResultsOf(i) = {}
        /\ benchmark.total_questions < Len(question_data)

(***************************************************************************)
(* Sizes of the chunks (under SpecChunk)                                   *)
(***************************************************************************)

\* C19: in paragraph mode every chunk made of two or more paragraphs has at
\* most 1500 characters, and a chunk of more than 1500 characters is a single
\* paragraph that is itself longer than 1500.
C19_ChunkWithinTarget ==
  chunk_pc = "paragraph_mode" =>
    \A i \in DOMAIN text_chunks :
      /\ Len(Split(text_chunks[i].text, BlankLine)) >= 2 => Len(text_chunks[i].text) <= 1500
      /\ Len(text_chunks[i].text) > 1500 => Len(Split(text_chunks[i].text, BlankLine)) = 1

\* what is expected of the chunks of one section, m what was captured for it
SubstantialKept(section_chunks, section_title, m) ==
  /\ Len(m.content) < 100 => section_chunks = <<>>
  /\ Len(m.content) >= 100 =>
       /\ section_chunks # <<>>
       /\ \A i \in DOMAIN section_chunks :
            /\ section_chunks[i].topic = "textbook_section"
            /\ section_chunks[i].source = "pdf_valuation"
            /\ Prefix(section_chunks[i].text, Len(section_title)) = section_title

\* C20: in section mode a section whose captured content, stripped, has fewer
\* than 100 characters yields no chunk, and one whose content has 100
\* characters or more yields at least one chunk, each with topic
\* textbook_section, source pdf_valuation, the title as its section and a text
\* that starts with the title.
C20_SubstantialSections ==
  chunk_pc = "section_mode" =>
    \A i \in DOMAIN cleaned_sections :
      SectionMatches(doc_text, cleaned_sections, i).found =>
        SubstantialKept(ChunksTitled(text_chunks, cleaned_sections[i]), cleaned_sections[i],
                        SectionMatches(doc_text, cleaned_sections, i))

(***************************************************************************)
(* Paragraph mode keeps every wanted paragraph once (under SpecChunk)      *)
(***************************************************************************)

Wanted(para) == ~Unwanted(para)

\* the paragraphs of a text that pass the filter, in their order
WantedParagraphs(text) == SelectSeq(StripAll(Split(text, BlankLine)), Wanted)

\* the paragraphs of the first n chunks, one after the other
RECURSIVE ParagraphsOf(_, _)
ParagraphsOf(some_chunks, n) ==
  IF n = 0 THEN <<>>
  ELSE ParagraphsOf(some_chunks, n - 1) \o Split(some_chunks[n].text, BlankLine)

\* C21: in paragraph mode the paragraphs of the chunks, read chunk after chunk,
\* are the paragraphs of the text that pass the filter (50 characters or more,
\* no 'Page' in the first 20), each once and in the order of the text, and
\* the sections of the chunks are chunk_0, chunk_1, ... in the order emitted.
C21_EveryWantedParagraphOnce ==
  chunk_pc = "paragraph_mode" =>
    /\ ParagraphsOf(text_chunks, Len(text_chunks)) = WantedParagraphs(doc_text)
    /\ \A i \in DOMAIN text_chunks :
         text_chunks[i].section = <<"c","h","u","n","k","_">> \o Str(i - 1)

\* C21, reached: two paragraphs that pass the filter went to two chunks,
\* chunk_0 and chunk_1, the first paragraph in the first
C21_Witness ==
  /\ chunk_pc = "paragraph_mode"
  /\ Len(WantedParagraphs(doc_text)) = 2
  /\ Len(text_chunks) = 2
  /\ text_chunks[1].text = WantedParagraphs(doc_text)[1]
  /\ text_chunks[2].section = <<"c","h","u","n","k","_","1">>

\* C21, reached as well: a chunk of two paragraphs, with a paragraph between
\* them in the text that did not pass the filter
C21_OneLeftOut ==
  /\ chunk_pc = "paragraph_mode"
  /\ Len(text_chunks) = 1
  /\ Len(Split(text_chunks[1].text, BlankLine)) = 2
  /\ Len(StripAll(Split(doc_text, BlankLine))) > 2

(***************************************************************************)
(* The metrics evaluate_on_dataset returns (under SpecEval)                *)
(***************************************************************************)

\* how many of the results are correct
CorrectAmong(rs) == Cardinality({k \in DOMAIN rs : rs[k].is_correct})

\* the question types that have a result
TypesAmong(rs) ==
  {t \in {"basic_tactical", "assumption_tactical", "conceptual"} :
     \E k \in DOMAIN rs : rs[k].question_type = t}

\* metrics that agree with the results they are returned with
MetricsOf(b, rs) ==
  /\ b.total_questions = Len(rs)
  /\ b.total_correct = CorrectAmong(rs)
  /\ b.total_correct <= b.total_questions
  /\ b.overall_accuracy = IF Len(rs) = 0 THEN <<0, 1>> ELSE <<CorrectAmong(rs), Len(rs)>>
  /\ DOMAIN b.by_type_accuracy = TypesAmong(rs)

\* C22: whatever the order in which the workers finish, what
\* evaluate_on_dataset returns has total_questions equal to the number of
\* detailed results, total_correct equal to the number of correct ones and at
\* most total_questions, overall_accuracy equal to their quotient (0 when
\* there is no result), and a by_type_accuracy entry for exactly the question
\* types that have a result.
C22_MetricsAgree ==
  benchmark.returned => MetricsOf(benchmark, benchmark.detailed_results)

\* C22, reached: a run of two questions of two types, the second collected
\* first, one judged correct and one not
C22_Witness ==
  /\ benchmark.returned
  /\ benchmark.total_questions = 2
  /\ benchmark.total_correct = 1
  /\ benchmark.detailed_results[1].question_id = question_data[2].question_id
  /\ DOMAIN benchmark.by_type_accuracy = {"basic_tactical", "conceptual"}

\* C22, reached as well: the dataset did not load, and the metrics are empty
C22_NothingLoaded ==
  /\ benchmark.returned
  /\ question_data = <<>>
  /\ tasks = <<>>
  /\ benchmark.total_questions = 0
  /\ benchmark.by_type_accuracy = <<>>

(***************************************************************************)
(* Saving the results of an empty run (under SpecSave)                     *)
(***************************************************************************)

\* save_results is over, returned or left by an exception
SaveOver == save_pc \in {"returned", "raised"}

\* the report is written to its last block
ReportComplete ==
  /\ report_file # <<>>
  /\ report_file[Len(report_file)].line = "FAILED CASES ANALYSIS"

\* C23: when evaluate_on_dataset has returned a result with no question (the
\* dataset did not load, or has no rows), the call of save_results that main
\* makes next returns without raising, with the CSV and the whole report written.
C23_EmptyRunSaved ==
  (SaveOver /\ benchmark.returned /\ benchmark.total_questions = 0) =>
     /\ save_pc = "returned"
     /\ save_error = "none"
     /\ csv_file.written
     /\ ReportComplete

=============================================================================
